---- MODULE Spec2Model ----
(***************************************************************************)
(* Selector resolution of the Fact-It extension: the persistent selector   *)
(* cache (selector-cache.ts), the static selector registry                 *)
(* (static-selectors.ts), the discovery retry loop (selector-generator)    *)
(* and the two message handlers of the service worker that drive them      *)
(* (handleDiscoverSelectors, handleValidationResult).                      *)
(*                                                                         *)
(* Strings whose characters the code inspects (domains) are sequences of   *)
(* one-character strings.  A value that may be null is a sequence of       *)
(* length 0 (null) or 1.                                                   *)
(***************************************************************************)
EXTENDS Integers, Sequences, FiniteSets, TLC

VARIABLES
    store,   \* chrome.storage.local[STORAGE_KEYS.SELECTORS]: domain key -> entry
    now,     \* Date.now(), in seconds
    ticks,   \* number of clock advances so far
    ops,     \* number of handler runs so far
    last,    \* what the most recent handler run received, did and answered
    procs,   \* the handler runs in flight, each at one of its await points
    writes,  \* the chrome.storage.local.set calls that went through, in order
    observer \* the Runtime Observer of the page that is loaded in the tab

vars == <<store, now, ticks, ops, last, procs, writes, observer>>

----------------------------------------------------------------------------
(* Bounds of the model *)

MaxTicks == 1
MaxOps == 3

----------------------------------------------------------------------------
(* Option values *)

None == <<>>
Some(x) == <<x>>
IsSome(o) == Len(o) = 1
Get(o) == o[1]

----------------------------------------------------------------------------
(* Strings: String.prototype.toLowerCase, replace(/^www\./, ''), split('.'),
   join('.') *)

UpperCaseLetters ==
    <<"A","B","C","D","E","F","G","H","I","J","K","L","M",
      "N","O","P","Q","R","S","T","U","V","W","X","Y","Z">>

LowerCaseLetters ==
    <<"a","b","c","d","e","f","g","h","i","j","k","l","m",
      "n","o","p","q","r","s","t","u","v","w","x","y","z">>

toLowerCaseChar(c) ==
    IF \E i \in DOMAIN UpperCaseLetters : UpperCaseLetters[i] = c
    THEN LowerCaseLetters[CHOOSE i \in DOMAIN UpperCaseLetters : UpperCaseLetters[i] = c]
    ELSE c

toLowerCase(s) == [i \in 1..Len(s) |-> toLowerCaseChar(s[i])]

\* s.replace(/^www\./, '')
stripWww(s) ==
    IF Len(s) >= 4 /\ SubSeq(s, 1, 4) = <<"w", "w", "w", ".">>
    THEN SubSeq(s, 5, Len(s))
    ELSE s

RECURSIVE splitFrom(_, _, _)
\* the labels of s from position i on, cur being the label read so far
splitFrom(s, i, cur) ==
    IF i > Len(s) THEN <<cur>>
    ELSE IF s[i] = "." THEN <<cur>> \o splitFrom(s, i + 1, <<>>)
    ELSE splitFrom(s, i + 1, Append(cur, s[i]))

\* s.split('.')
split(s) == splitFrom(s, 1, <<>>)

RECURSIVE join(_)
\* parts.join('.')
join(parts) ==
    IF Len(parts) = 0 THEN <<>>
    ELSE IF Len(parts) = 1 THEN parts[1]
    ELSE parts[1] \o <<".">> \o join(Tail(parts))

\* parts.slice(-n)
sliceLast(parts, n) ==
    IF Len(parts) <= n THEN parts ELSE SubSeq(parts, Len(parts) - n + 1, Len(parts))

----------------------------------------------------------------------------
(* Domain labels and the domains of the registry *)

L_www == <<"w","w","w">>
L_com == <<"c","o","m">>
L_x == <<"x">>
L_m == <<"m">>
L_mobile == <<"m","o","b","i","l","e">>
L_twitter == <<"t","w","i","t","t","e","r">>
L_linkedin == <<"l","i","n","k","e","d","i","n">>
L_facebook == <<"f","a","c","e","b","o","o","k">>
L_co == <<"c","o">>
L_uk == <<"u","k">>
L_au == <<"a","u">>
L_jp == <<"j","p">>
L_in == <<"i","n">>
L_br == <<"b","r">>
L_constructor == <<"c","o","n","s","t","r","u","c","t","o","r">>

\* an absent optional field (author?, timestamp?, reasoning?)
Undefined == "undefined"

\* SELECTORS.twitter / linkedin / facebook, as PlatformSelectors; the long
\* comma-joined LinkedIn unions are abbreviated to their first alternative.
TwitterSelectors ==
    [postContainer |-> "article[data-testid=tweet]",
     textContent |-> "div[data-testid=tweetText]",
     author |-> Undefined, timestamp |-> Undefined]

LinkedinSelectors ==
    [postContainer |-> "article[data-urn^=urn:li:activity], ...",
     textContent |-> "div.update-components-text span[dir], ...",
     author |-> "a.update-components-actor__meta-link",
     timestamp |-> "span.update-components-actor__sub-description"]

FacebookSelectors ==
    [postContainer |-> "div.x1yztbdb.x1n2onr6.xh8yej3.x1ja2u2z",
     textContent |-> "div.xdj266r span[dir=auto]",
     author |-> Undefined, timestamp |-> Undefined]

\* the registry, as <<key, selectors>> pairs in source order
STATIC_SELECTOR_REGISTRY ==
    << <<join(<<L_twitter, L_com>>), TwitterSelectors>>,
       <<join(<<L_x, L_com>>), TwitterSelectors>>,
       <<join(<<L_mobile, L_twitter, L_com>>), TwitterSelectors>>,
       <<join(<<L_mobile, L_x, L_com>>), TwitterSelectors>>,
       <<join(<<L_linkedin, L_com>>), LinkedinSelectors>>,
       <<join(<<L_www, L_linkedin, L_com>>), LinkedinSelectors>>,
       <<join(<<L_mobile, L_linkedin, L_com>>), LinkedinSelectors>>,
       <<join(<<L_facebook, L_com>>), FacebookSelectors>>,
       <<join(<<L_www, L_facebook, L_com>>), FacebookSelectors>>,
       <<join(<<L_m, L_facebook, L_com>>), FacebookSelectors>>,
       <<join(<<L_mobile, L_facebook, L_com>>), FacebookSelectors>> >>

\* The registry is an object literal, so STATIC_SELECTOR_REGISTRY[key] also finds
\* the members it inherits from Object.prototype.  Of their names only
\* 'constructor' survives toLowerCase and can be a host name; its value is the
\* function Object, which is truthy and has none of the selector fields.
InheritedMembers == { L_constructor }

InheritedValue ==
    [postContainer |-> Undefined, textContent |-> Undefined,
     author |-> Undefined, timestamp |-> Undefined]

\* STATIC_SELECTOR_REGISTRY[key]: the registered selectors, an inherited member,
\* or undefined (null here)
registryLookup(key) ==
    IF \E i \in DOMAIN STATIC_SELECTOR_REGISTRY : STATIC_SELECTOR_REGISTRY[i][1] = key
    THEN Some(STATIC_SELECTOR_REGISTRY[
             CHOOSE i \in DOMAIN STATIC_SELECTOR_REGISTRY :
                 STATIC_SELECTOR_REGISTRY[i][1] = key][2])
    ELSE IF key \in InheritedMembers THEN Some(InheritedValue)
    ELSE None

twoPartTlds ==
    { join(<<L_co, L_uk>>), join(<<L_com, L_au>>), join(<<L_co, L_jp>>),
      join(<<L_co, L_in>>), join(<<L_com, L_br>>) }

\* [mutant] the last two labels, whatever the TLD
extractBaseDomain_AlwaysTwo(domain) ==
    LET parts == split(domain) IN
    IF Len(parts) < 2 THEN domain ELSE join(sliceLast(parts, 2))

extractBaseDomain(domain) ==
    LET parts == split(domain) IN
    IF Len(parts) < 2 THEN domain
    ELSE IF join(sliceLast(parts, 2)) \in twoPartTlds
         THEN join(sliceLast(parts, 3))
         ELSE join(sliceLast(parts, 2))

\* domain.toLowerCase().replace(/^www\./, '')
normalizeDomain(domain) == stripWww(toLowerCase(domain))

getStaticSelectorsForDomain(domain) ==
    LET normalizedDomain == normalizeDomain(domain)
        withWww == L_www \o <<".">> \o normalizedDomain
        baseDomain == extractBaseDomain(normalizedDomain)
    IN  IF IsSome(registryLookup(normalizedDomain)) THEN registryLookup(normalizedDomain)
        ELSE IF IsSome(registryLookup(withWww)) THEN registryLookup(withWww)
        ELSE IF baseDomain # normalizedDomain /\ IsSome(registryLookup(baseDomain))
             THEN registryLookup(baseDomain)
        ELSE None

----------------------------------------------------------------------------
(* The domains of the requests *)

L_a == <<"a">>
L_io == <<"i","o">>

\* "a.io": not in the static registry
A_IO == join(<<L_a, L_io>>)
\* "WWW.A.io": another spelling of a.io
WWW_A_IO == <<"W","W","W",".","A",".","i","o">>
\* "x.com": in the static registry
X_COM == join(<<L_x, L_com>>)

Domains == {A_IO, WWW_A_IO, X_COM}

\* "constructor": a single-label host name
CONSTRUCTOR == L_constructor

\* the domains of the requests when a single-label host is among them
RequestDomains == {A_IO, X_COM, CONSTRUCTOR}

\* getStaticSelectorsForDomain on the request domains, evaluated once
staticSelectorsFor ==
    [d \in Domains \cup RequestDomains |-> getStaticSelectorsForDomain(d)]

----------------------------------------------------------------------------
(* Selector cache (selector-cache.ts).  Every operation reads the whole
   selector map with chrome.storage.local.get and writes the whole map back
   with chrome.storage.local.set; either call may reject.  `fault` names the
   call of one cache operation that rejects: "none", "get" or "set".  Each
   result carries the number of storage calls made (gets, sets) and whether
   the operation's promise rejects (threw); failed marks an error the
   operation caught itself. *)

\* Times are counted in seconds, the source's milliseconds divided by 1000
\* (the source's millisecond values exceed the 32-bit integers of the checker).
CACHE_TTL_MS == 30 * 24 * 60 * 60

REVALIDATION_INTERVAL_MS == 7 * 24 * 60 * 60

Faults == {"none", "get", "set"}

\* [mutant] the whole map is emptied
deleteKey_All(cache, domain) == <<>>

\* delete cache[domain]
deleteKey(cache, domain) == [k \in (DOMAIN cache) \ {domain} |-> cache[k]]

\* [mutant] an entry already there is kept
putKey_KeepFirst(cache, domain, entry) ==
    [k \in (DOMAIN cache) \cup {domain} |-> IF k \in DOMAIN cache THEN cache[k] ELSE entry]

\* cache[domain] = entry
putKey(cache, domain, entry) ==
    [k \in (DOMAIN cache) \cup {domain} |-> IF k = domain THEN entry ELSE cache[k]]

\* [mutant] the map is not written back after the delete
removeCachedSelectors_NotWritten(st, domain, fault) ==
    [store |-> st, gets |-> 1, sets |-> 0, failed |-> fault = "get", threw |-> FALSE]

\* [mutant] the caught storage error is thrown again
removeCachedSelectors_Rethrows(st, domain, fault) ==
    IF fault = "get" THEN [store |-> st, gets |-> 1, sets |-> 0, failed |-> TRUE, threw |-> TRUE]
    ELSE IF fault = "set" THEN [store |-> st, gets |-> 1, sets |-> 1, failed |-> TRUE, threw |-> TRUE]
    ELSE [store |-> deleteKey(st, domain), gets |-> 1, sets |-> 1, failed |-> FALSE, threw |-> FALSE]

removeCachedSelectors(st, domain, fault) ==
    IF fault = "get" THEN [store |-> st, gets |-> 1, sets |-> 0, failed |-> TRUE, threw |-> FALSE]
    ELSE IF fault = "set" THEN [store |-> st, gets |-> 1, sets |-> 1, failed |-> TRUE, threw |-> FALSE]
    ELSE [store |-> deleteKey(st, domain), gets |-> 1, sets |-> 1, failed |-> FALSE, threw |-> FALSE]

\* [mutant] the age is counted from the last validation
isExpired_SinceValidation(entry, t) == t - entry.lastValidatedAt > CACHE_TTL_MS

\* [mutant] the boundary age counts as expired
isExpired_AtBoundary(entry, t) == t - entry.discoveredAt >= CACHE_TTL_MS

\* is the entry older than the TTL at time t
isExpired(entry, t) == t - entry.discoveredAt > CACHE_TTL_MS

\* [mutant] an expired entry is reported missing but left in the map
getCachedSelectors_NoEviction(st, t, domain, readFails, evictFault) ==
    IF readFails
    THEN [entry |-> None, store |-> st, gets |-> 1, sets |-> 0,
          readFailed |-> TRUE, evictFailed |-> FALSE, threw |-> FALSE]
    ELSE IF domain \notin DOMAIN st \/ isExpired(st[domain], t)
    THEN [entry |-> None, store |-> st, gets |-> 1, sets |-> 0,
          readFailed |-> FALSE, evictFailed |-> FALSE, threw |-> FALSE]
    ELSE [entry |-> Some(st[domain]), store |-> st, gets |-> 1, sets |-> 0,
          readFailed |-> FALSE, evictFailed |-> FALSE, threw |-> FALSE]

\* [mutant] the expired entry is evicted but still returned
getCachedSelectors_ReturnsEvicted(st, t, domain, readFails, evictFault) ==
    IF readFails
    THEN [entry |-> None, store |-> st, gets |-> 1, sets |-> 0,
          readFailed |-> TRUE, evictFailed |-> FALSE, threw |-> FALSE]
    ELSE IF domain \notin DOMAIN st
    THEN [entry |-> None, store |-> st, gets |-> 1, sets |-> 0,
          readFailed |-> FALSE, evictFailed |-> FALSE, threw |-> FALSE]
    ELSE IF isExpired(st[domain], t)
    THEN [entry |-> Some(st[domain]), store |-> deleteKey(st, domain), gets |-> 2, sets |-> 1,
          readFailed |-> FALSE, evictFailed |-> FALSE, threw |-> FALSE]
    ELSE [entry |-> Some(st[domain]), store |-> st, gets |-> 1, sets |-> 0,
          readFailed |-> FALSE, evictFailed |-> FALSE, threw |-> FALSE]

getCachedSelectors(st, t, domain, readFails, evictFault) ==
    IF readFails
    THEN [entry |-> None, store |-> st, gets |-> 1, sets |-> 0,
          readFailed |-> TRUE, evictFailed |-> FALSE, threw |-> FALSE]
    ELSE IF domain \notin DOMAIN st
    THEN [entry |-> None, store |-> st, gets |-> 1, sets |-> 0,
          readFailed |-> FALSE, evictFailed |-> FALSE, threw |-> FALSE]
    ELSE IF isExpired(st[domain], t)
    THEN LET r == removeCachedSelectors(st, domain, evictFault) IN
         [entry |-> None, store |-> r.store, gets |-> 1 + r.gets, sets |-> r.sets,
          readFailed |-> FALSE, evictFailed |-> r.failed, threw |-> FALSE]
    ELSE [entry |-> Some(st[domain]), store |-> st, gets |-> 1, sets |-> 0,
          readFailed |-> FALSE, evictFailed |-> FALSE, threw |-> FALSE]

\* [mutant] only discoveredAt is stamped
newEntry_Unstamped(t, domain, selectors, confidence, validationMetrics) ==
    [domain |-> domain, selectors |-> selectors, confidence |-> confidence,
     discoveredAt |-> t, lastValidatedAt |-> 0,
     validationMetrics |-> validationMetrics]

\* the entry setCachedSelectors builds
newEntry(t, domain, selectors, confidence, validationMetrics) ==
    [domain |-> domain, selectors |-> selectors, confidence |-> confidence,
     discoveredAt |-> t, lastValidatedAt |-> t,
     validationMetrics |-> validationMetrics]

setCachedSelectors(st, t, domain, selectors, confidence, validationMetrics, fault) ==
    IF fault = "get" THEN [store |-> st, gets |-> 1, sets |-> 0, threw |-> TRUE]
    ELSE IF fault = "set" THEN [store |-> st, gets |-> 1, sets |-> 1, threw |-> TRUE]
    ELSE [store |-> putKey(st, domain,
                          newEntry(t, domain, selectors, confidence, validationMetrics)),
          gets |-> 1, sets |-> 1, threw |-> FALSE]

\* [mutant] the update restamps discoveredAt as well
updateValidationTimestamp_Restamps(st, t, domain, validationMetrics, fault) ==
    IF fault = "get" THEN [store |-> st, gets |-> 1, sets |-> 0, failed |-> TRUE, threw |-> FALSE]
    ELSE IF domain \notin DOMAIN st
    THEN [store |-> st, gets |-> 1, sets |-> 0, failed |-> FALSE, threw |-> FALSE]
    ELSE IF fault = "set" THEN [store |-> st, gets |-> 1, sets |-> 1, failed |-> TRUE, threw |-> FALSE]
    ELSE [store |-> [st EXCEPT ![domain] =
                        [@ EXCEPT !.discoveredAt = t, !.lastValidatedAt = t,
                                  !.validationMetrics = validationMetrics]],
          gets |-> 1, sets |-> 1, failed |-> FALSE, threw |-> FALSE]

updateValidationTimestamp(st, t, domain, validationMetrics, fault) ==
    IF fault = "get" THEN [store |-> st, gets |-> 1, sets |-> 0, failed |-> TRUE, threw |-> FALSE]
    ELSE IF domain \notin DOMAIN st
    THEN [store |-> st, gets |-> 1, sets |-> 0, failed |-> FALSE, threw |-> FALSE]
    ELSE IF fault = "set" THEN [store |-> st, gets |-> 1, sets |-> 1, failed |-> TRUE, threw |-> FALSE]
    ELSE [store |-> [st EXCEPT ![domain] =
                        [@ EXCEPT !.lastValidatedAt = t,
                                  !.validationMetrics = validationMetrics]],
          gets |-> 1, sets |-> 1, failed |-> FALSE, threw |-> FALSE]

\* [mutant] the boundary interval counts as stale
needsRevalidation_AtBoundary(entry, t) == t - entry.lastValidatedAt >= REVALIDATION_INTERVAL_MS

needsRevalidation(entry, t) == t - entry.lastValidatedAt > REVALIDATION_INTERVAL_MS

RECURSIVE sumOver(_, _)
\* the sum of f[k] over the keys in S
sumOver(f, S) ==
    IF S = {} THEN 0
    ELSE LET k == CHOOSE x \in S : TRUE IN f[k] + sumOver(f, S \ {k})

\* Math.round of the quotient of two naturals: halves round up
roundDiv(a, b) == (2 * a + b) \div (2 * b)

ZeroStats ==
    [totalDomains |-> 0, averageConfidence |-> 0, oldestEntry |-> 0, newestEntry |-> 0]

getCacheStats(st, readFails) ==
    IF readFails \/ DOMAIN st = {} THEN ZeroStats
    ELSE LET keys == DOMAIN st
             n == Cardinality(keys)
             confidence == [k \in keys |-> st[k].confidence]
         IN  [totalDomains |-> n,
              averageConfidence |-> roundDiv(sumOver(confidence, keys), n),
              oldestEntry |-> CHOOSE m \in {st[k].discoveredAt : k \in keys} :
                                  \A k \in keys : m <= st[k].discoveredAt,
              newestEntry |-> CHOOSE m \in {st[k].discoveredAt : k \in keys} :
                                  \A k \in keys : m >= st[k].discoveredAt]

----------------------------------------------------------------------------
(* Selector discovery with retry (generateSelectors,
   generateSelectorsWithRetry).  The AI collaborator is an input: collab[i]
   is the outcome of the i-th call, a success or an error message; result is
   what a successful call returns.  A message is a sequence of phrases. *)

DEFAULT_MAX_ATTEMPTS == 3

Succeeds == [ok |-> TRUE, message |-> <<>>]
FailsWith(message) == [ok |-> FALSE, message |-> message]

ApiKeyMessage == <<"OpenAI", "API key", "not configured">>
NetworkMessage == <<"Failed to fetch">>
TimeoutMessage == <<"Request timed out">>

\* [mutant] no error is classified as a credential error
includesApiKey_Never(message) == FALSE

\* message.includes('API key')
includesApiKey(message) == \E i \in DOMAIN message : message[i] = "API key"

\* [mutant] postContainer and textContent swapped
generateSelectors_Swapped(result) ==
    [selectors |-> [postContainer |-> result.textContent,
                    textContent |-> result.postContainer,
                    author |-> result.author,
                    timestamp |-> result.timestamp],
     confidence |-> result.confidence,
     reasoning |-> result.reasoning]

\* the SelectorDiscoveryResult generateSelectors builds from the collaborator's answer
generateSelectors(result) ==
    [selectors |-> [postContainer |-> result.postContainer,
                    textContent |-> result.textContent,
                    author |-> result.author,
                    timestamp |-> result.timestamp],
     confidence |-> result.confidence,
     reasoning |-> result.reasoning]

\* [mutant] the first backoff is 1 s
backoffDelay_FromOne(attempt) == 2 ^ (attempt - 1)

\* Math.pow(2, attempt) * 1000 ms, in seconds
backoffDelay(attempt) == 2 ^ attempt

\* what the loop does, in order: collaborator calls and backoff sleeps
Call(attempt) == [kind |-> "call", arg |-> attempt]
Wait(delay) == [kind |-> "wait", arg |-> delay]

\* the Error thrown after the loop: its message names maxAttempts and
\* lastError?.message
terminalError(maxAttempts, lastMessage) ==
    [attempts |-> maxAttempts, lastMessage |-> lastMessage]

\* lastError rethrown as it is
rethrown(message) == [attempts |-> 0, lastMessage |-> message]

NoError == [attempts |-> 0, lastMessage |-> <<>>]

RECURSIVE retryLoop_WaitsAfterLast(_, _, _, _, _, _)
\* [mutant] the backoff sleep is taken after the final attempt as well
retryLoop_WaitsAfterLast(collab, result, maxAttempts, attempt, waits, trace) ==
    IF attempt > maxAttempts
    THEN [ok |-> FALSE, value |-> None, calls |-> attempt - 1, waits |-> waits,
          trace |-> trace,
          error |-> terminalError(maxAttempts,
                                  IF maxAttempts >= 1 THEN collab[maxAttempts].message
                                  ELSE <<Undefined>>)]
    ELSE IF collab[attempt].ok
    THEN [ok |-> TRUE, value |-> Some(generateSelectors(result)), calls |-> attempt,
          waits |-> waits, trace |-> Append(trace, Call(attempt)), error |-> NoError]
    ELSE IF includesApiKey(collab[attempt].message)
    THEN [ok |-> FALSE, value |-> None, calls |-> attempt, waits |-> waits,
          trace |-> Append(trace, Call(attempt)),
          error |-> rethrown(collab[attempt].message)]
    ELSE retryLoop_WaitsAfterLast(collab, result, maxAttempts, attempt + 1,
             Append(waits, backoffDelay(attempt)),
             trace \o <<Call(attempt), Wait(backoffDelay(attempt))>>)

RECURSIVE retryLoop(_, _, _, _, _, _)
\* the loop from `attempt` on; waits are the backoff sleeps taken so far and
\* trace the calls and sleeps so far, in order
retryLoop(collab, result, maxAttempts, attempt, waits, trace) ==
    IF attempt > maxAttempts
    THEN [ok |-> FALSE, value |-> None, calls |-> attempt - 1, waits |-> waits,
          trace |-> trace,
          error |-> terminalError(maxAttempts,
                                  IF maxAttempts >= 1 THEN collab[maxAttempts].message
                                  ELSE <<Undefined>>)]
    ELSE IF collab[attempt].ok
    THEN [ok |-> TRUE, value |-> Some(generateSelectors(result)), calls |-> attempt,
          waits |-> waits, trace |-> Append(trace, Call(attempt)), error |-> NoError]
    ELSE IF includesApiKey(collab[attempt].message)
    THEN [ok |-> FALSE, value |-> None, calls |-> attempt, waits |-> waits,
          trace |-> Append(trace, Call(attempt)),
          error |-> rethrown(collab[attempt].message)]
    ELSE IF attempt < maxAttempts
    THEN retryLoop(collab, result, maxAttempts, attempt + 1,
                   Append(waits, backoffDelay(attempt)),
                   trace \o <<Call(attempt), Wait(backoffDelay(attempt))>>)
    ELSE retryLoop(collab, result, maxAttempts, attempt + 1, waits,
                   Append(trace, Call(attempt)))

generateSelectorsWithRetry(collab, result, maxAttempts) ==
    retryLoop(collab, result, maxAttempts, 1, <<>>, <<>>)

----------------------------------------------------------------------------
(* handleDiscoverSelectors.  A frame carries the handler's progress: the
   selector map as stored so far, the responses sent, whether the handler has
   returned, and what it has called. *)

newFrame(st) ==
    [store |-> st, responses |-> <<>>, returned |-> FALSE,
     gets |-> 0, sets |-> 0, lookups |-> 0, calls |-> 0, waits |-> <<>>,
     cacheRead |-> FALSE, cacheEntry |-> None,
     discovery |-> "none", discovered |-> None,
     readFailed |-> FALSE, evictFailed |-> FALSE, writeFailed |-> FALSE]

sendResponse(f, payload) == [f EXCEPT !.responses = Append(@, payload)]

\* [mutant] a response that is not followed by return
return_Missing(f) == f

\* `return` after a response
return(f) == [f EXCEPT !.returned = TRUE]

STATIC_CONFIDENCE == 85

EmptySelectors ==
    [postContainer |-> "", textContent |-> "", author |-> Undefined, timestamp |-> Undefined]

staticResponse(domain, selectors, reasoning) ==
    [domain |-> domain, selectors |-> selectors, confidence |-> STATIC_CONFIDENCE,
     cached |-> FALSE, source |-> "static", reasoning |-> reasoning]

cacheResponse(domain, entry) ==
    [domain |-> domain, selectors |-> entry.selectors, confidence |-> entry.confidence,
     cached |-> TRUE, source |-> "cache", reasoning |-> Undefined]

dynamicResponse(domain, result) ==
    [domain |-> domain, selectors |-> result.selectors, confidence |-> result.confidence,
     cached |-> FALSE, source |-> "dynamic", reasoning |-> result.reasoning]

emptyResponse(domain) ==
    [domain |-> domain, selectors |-> EmptySelectors, confidence |-> 0,
     cached |-> FALSE, source |-> "static", reasoning |-> Undefined]

\* [mutant] an empty sample counts as a sample
hasSample_NonNull(htmlSample) == IsSome(htmlSample)

\* JavaScript truthiness of htmlSample (null and '' are falsy)
hasSample(htmlSample) == IsSome(htmlSample) /\ Get(htmlSample) # ""

\* TIER 3 (if forced)
forcedStaticTier(f, req) ==
    IF ~req.forceStatic THEN f
    ELSE LET staticSelectors == staticSelectorsFor[req.domain]
             f1 == [f EXCEPT !.lookups = @ + 1]
         IN  IF IsSome(staticSelectors)
             THEN return(sendResponse(f1,
                     staticResponse(req.domain, Get(staticSelectors),
                         "Using predefined static selectors for known platform")))
             ELSE f1

\* [mutant] the cache tier without its forceStatic guard
cacheTier_Unguarded(f, req, t, readFails, evictFault) ==
    IF f.returned THEN f
    ELSE LET c == getCachedSelectors(f.store, t, req.domain, readFails, evictFault)
             f1 == [f EXCEPT !.store = c.store, !.gets = @ + c.gets, !.sets = @ + c.sets,
                             !.cacheRead = TRUE, !.cacheEntry = c.entry,
                             !.readFailed = c.readFailed, !.evictFailed = c.evictFailed]
         IN  IF IsSome(c.entry)
             THEN return(sendResponse(f1, cacheResponse(req.domain, Get(c.entry))))
             ELSE f1

\* TIER 1
cacheTier(f, req, t, readFails, evictFault) ==
    IF f.returned \/ req.forceStatic THEN f
    ELSE LET c == getCachedSelectors(f.store, t, req.domain, readFails, evictFault)
             f1 == [f EXCEPT !.store = c.store, !.gets = @ + c.gets, !.sets = @ + c.sets,
                             !.cacheRead = TRUE, !.cacheEntry = c.entry,
                             !.readFailed = c.readFailed, !.evictFailed = c.evictFailed]
         IN  IF IsSome(c.entry)
             THEN return(sendResponse(f1, cacheResponse(req.domain, Get(c.entry))))
             ELSE f1

\* does the handler enter TIER 2
entersDiscovery(f, req) == ~f.returned /\ ~req.forceStatic /\ hasSample(req.htmlSample)

\* TIER 2, the discovery call
discoveryCall(f, req, collab, result) ==
    IF ~entersDiscovery(f, req) THEN f
    ELSE LET d == generateSelectorsWithRetry(collab, result, DEFAULT_MAX_ATTEMPTS) IN
         [f EXCEPT !.calls = @ + d.calls, !.waits = @ \o d.waits,
                   !.discovery = IF d.ok THEN "ok" ELSE "failed",
                   !.discovered = d.value]

\* TIER 2, after a successful discovery: cache, then answer; a throwing
\* setCachedSelectors lands in catch (dynamicError) and falls through
\* [mutant] the dynamic response is sent without waiting for the cache write
cacheAndAnswer_AnswersFirst(f, req, t, writeFault) ==
    IF f.returned \/ f.discovery # "ok" THEN f
    ELSE return(sendResponse(f, dynamicResponse(req.domain, Get(f.discovered))))

cacheAndAnswer(f, req, t, writeFault) ==
    IF f.returned \/ f.discovery # "ok" THEN f
    ELSE LET result == Get(f.discovered)
             w == setCachedSelectors(f.store, t, req.domain, result.selectors,
                                     result.confidence,
                                     [postsFound |-> 0, textExtractionRate |-> 0],
                                     writeFault)
             f1 == [f EXCEPT !.store = w.store, !.gets = @ + w.gets, !.sets = @ + w.sets,
                             !.writeFailed = w.threw]
         IN  IF w.threw THEN f1
             ELSE return(sendResponse(f1, dynamicResponse(req.domain, result)))

\* [mutant] a failed discovery propagates past the static tier
staticTier_SkippedOnError(f, req) ==
    IF f.returned \/ f.discovery = "failed" THEN f
    ELSE LET staticSelectors == staticSelectorsFor[req.domain]
             f1 == [f EXCEPT !.lookups = @ + 1]
         IN  IF IsSome(staticSelectors)
             THEN return(sendResponse(f1,
                     staticResponse(req.domain, Get(staticSelectors),
                         "Dynamic discovery failed, using predefined static selectors")))
             ELSE f1

\* [mutant] the static match is written to the cache as well
staticTier_Caches(f, req) ==
    IF f.returned THEN f
    ELSE LET staticSelectors == staticSelectorsFor[req.domain]
             f1 == [f EXCEPT !.lookups = @ + 1]
         IN  IF IsSome(staticSelectors)
             THEN return(sendResponse(
                     [f1 EXCEPT !.store = putKey(@, req.domain,
                          newEntry(0, req.domain, Get(staticSelectors), STATIC_CONFIDENCE,
                                   [postsFound |-> 0, textExtractionRate |-> 0]))],
                     staticResponse(req.domain, Get(staticSelectors),
                         "Dynamic discovery failed, using predefined static selectors")))
             ELSE f1

\* TIER 3 (last resort)
staticTier(f, req) ==
    IF f.returned THEN f
    ELSE LET staticSelectors == staticSelectorsFor[req.domain]
             f1 == [f EXCEPT !.lookups = @ + 1]
         IN  IF IsSome(staticSelectors)
             THEN return(sendResponse(f1,
                     staticResponse(req.domain, Get(staticSelectors),
                         "Dynamic discovery failed, using predefined static selectors")))
             ELSE f1

\* all tiers failed
emptyTier(f, req) ==
    IF f.returned THEN f
    ELSE return(sendResponse(f, emptyResponse(req.domain)))

\* the handler from the cache tier's frame on
finishFrom(f, req, t, collab, result, writeFault) ==
    emptyTier(staticTier(cacheAndAnswer(discoveryCall(f, req, collab, result),
                                        req, t, writeFault), req), req)

handleDiscoverSelectors(st, t, req, readFails, evictFault, collab, result, writeFault) ==
    finishFrom(cacheTier(forcedStaticTier(newFrame(st), req), req, t, readFails, evictFault),
               req, t, collab, result, writeFault)

----------------------------------------------------------------------------
(* handleValidationResult *)

handleValidationResult(st, t, payload, fault) ==
    LET r == IF payload.valid
             THEN updateValidationTimestamp(st, t, payload.domain,
                      [postsFound |-> payload.postsFound,
                       textExtractionRate |-> payload.textExtractionRate], fault)
             ELSE removeCachedSelectors(st, payload.domain, fault)
    IN  [store |-> r.store, responses |-> <<[success |-> TRUE]>>,
         gets |-> r.gets, sets |-> r.sets, failed |-> r.failed]

----------------------------------------------------------------------------
(* Inputs of the handlers *)

HtmlSamples == {None, Some(""), Some("<article class=post><p class=body>..</p></article>")}

\* answers of the AI collaborator
DiscoveryResults ==
    { [postContainer |-> ".post", textContent |-> ".body", author |-> ".byline",
       timestamp |-> Undefined, confidence |-> 72, reasoning |-> "repeated .post cards"],
      [postContainer |-> "", textContent |-> "", author |-> Undefined,
       timestamp |-> Undefined, confidence |-> 10,
       reasoning |-> "no repeated post structure in the sample"] }

\* behaviours of the AI collaborator over the attempts of one discovery
Collaborators ==
    { <<Succeeds, Succeeds, Succeeds>>,
      <<FailsWith(NetworkMessage), FailsWith(NetworkMessage), Succeeds>>,
      <<FailsWith(ApiKeyMessage), Succeeds, Succeeds>>,
      <<FailsWith(NetworkMessage), FailsWith(NetworkMessage), FailsWith(NetworkMessage)>> }

\* validation reports; textExtractionRate is in hundredths
ReportedMetrics ==
    { [postsFound |-> 0, textExtractionRate |-> 0],
      [postsFound |-> 5, textExtractionRate |-> 80] }

\* the time that passes between two handler runs: the TTL exactly, or just more
ClockSteps == {CACHE_TTL_MS, CACHE_TTL_MS + 1}

StartTime == 1000

----------------------------------------------------------------------------
(* The state machine *)

Idle == [op |-> "idle"]

\* no page is loaded yet; loads counts the page loads so far
NoPage == [phase |-> "unloaded", loads |-> 0]

\* the two handler runs that may be in flight together
Procs == {1, 2}

NoRequest == [domain |-> <<>>, htmlSample |-> None, forceStatic |-> FALSE]

\* a handler run that has not started: f is its frame (f.store its local copy of
\* the selector map), entry the cache entry it has built
IdleProc ==
    [pc |-> "idle", req |-> NoRequest, f |-> newFrame(<<>>), entry |-> None, sawWrites |-> 0]

Init ==
    /\ store = <<>>
    /\ now = StartTime
    /\ ticks = 0
    /\ ops = 0
    /\ last = Idle
    /\ procs = [p \in Procs |-> IdleProc]
    /\ writes = <<>>
    /\ observer = NoPage

\* time passes between two handler runs
Tick ==
    /\ last = Idle
    /\ ticks < MaxTicks
    /\ \E step \in ClockSteps : now' = now + step
    /\ ticks' = ticks + 1
    /\ UNCHANGED <<store, ops, last, procs, writes, observer>>

\* would getCachedSelectors(d) find an expired entry and evict it
evicts(st, t, d) == d \in DOMAIN st /\ isExpired(st[d], t)

\* a DISCOVER_SELECTORS message is handled.  The environment's choices
\* (storage faults, collaborator behaviour and answer) are drawn only where
\* the handler reaches the call they decide.
ResolveIn(domains) ==
    /\ last = Idle
    /\ ops < MaxOps
    /\ \E d \in domains, h \in HtmlSamples, fs \in BOOLEAN :
         LET req == [domain |-> d, htmlSample |-> h, forceStatic |-> fs] IN
         \E readFails \in (IF fs THEN {FALSE} ELSE BOOLEAN) :
           \E evictFault \in (IF ~fs /\ ~readFails /\ evicts(store, now, d)
                              THEN Faults ELSE {"none"}) :
             LET f1 == cacheTier(forcedStaticTier(newFrame(store), req), req, now,
                                 readFails, evictFault)
                 discovers == entersDiscovery(f1, req)
             IN
             \E collab \in (IF discovers THEN Collaborators
                            ELSE {<<Succeeds, Succeeds, Succeeds>>}) :
               LET found == discovers /\
                       generateSelectorsWithRetry(collab, CHOOSE r \in DiscoveryResults : TRUE,
                                                  DEFAULT_MAX_ATTEMPTS).ok
               IN
               \E result \in (IF found THEN DiscoveryResults
                              ELSE {CHOOSE r \in DiscoveryResults : TRUE}),
                  writeFault \in (IF found THEN Faults ELSE {"none"}) :
                 LET f == handleDiscoverSelectors(store, now, req, readFails, evictFault,
                                                  collab, result, writeFault)
                 IN  /\ store' = f.store
                     /\ last' = [op |-> "resolve", req |-> req, pre |-> store, at |-> now,
                                 env |-> [readFails |-> readFails, evictFault |-> evictFault,
                                          collab |-> collab, result |-> result,
                                          writeFault |-> writeFault],
                                 f |-> f]
    /\ ops' = ops + 1
    /\ UNCHANGED <<now, ticks, procs, writes, observer>>

Resolve == ResolveIn(Domains)

\* a VALIDATION_RESULT message is handled
Validate ==
    /\ last = Idle
    /\ ops < MaxOps
    /\ \E d \in Domains, valid \in BOOLEAN, m \in ReportedMetrics, fault \in Faults :
         LET payload == [domain |-> d, valid |-> valid, postsFound |-> m.postsFound,
                         textExtractionRate |-> m.textExtractionRate]
             f == handleValidationResult(store, now, payload, fault)
         IN  /\ store' = f.store
             /\ last' = [op |-> "validate", req |-> payload, pre |-> store, at |-> now,
                         env |-> [fault |-> fault], f |-> f]
    /\ ops' = ops + 1
    /\ UNCHANGED <<now, ticks, procs, writes, observer>>

\* the cache statistics are read
Stats ==
    /\ last = Idle
    /\ \E readFails \in BOOLEAN :
         last' = [op |-> "stats", req |-> <<>>, pre |-> store, at |-> now,
                  env |-> [readFails |-> readFails],
                  f |-> [stats |-> getCacheStats(store, readFails)]]
    /\ UNCHANGED <<store, now, ticks, ops, procs, writes, observer>>

\* the response has reached the sender and the run's record is dropped
Deliver ==
    /\ last # Idle
    /\ last' = Idle
    /\ UNCHANGED <<store, now, ticks, ops, procs, writes, observer>>

Next == Tick \/ Resolve \/ Validate \/ Stats \/ Deliver

Spec == Init /\ [][Next]_vars

TypeOK ==
    /\ DOMAIN store \subseteq Domains
    /\ ticks \in 0..MaxTicks
    /\ ops \in 0..MaxOps

----------------------------------------------------------------------------
(* The retry loop on its own: generateSelectorsWithRetry called with every
   maxAttempts up to a bound and every behaviour of the collaborator over
   that many calls. *)

MaxAttemptsBound == 4

\* what one call of the collaborator may do
Outcomes ==
    { Succeeds, FailsWith(NetworkMessage), FailsWith(TimeoutMessage),
      FailsWith(ApiKeyMessage) }

\* generateSelectorsWithRetry(domain, htmlSample, n) runs
Discover ==
    /\ last = Idle
    /\ \E n \in 1..MaxAttemptsBound :
         \E collab \in [1..n -> Outcomes] :
           \E result \in (IF \E i \in 1..n : collab[i].ok THEN DiscoveryResults
                          ELSE {CHOOSE r \in DiscoveryResults : TRUE}) :
             last' = [op |-> "discover", req |-> [maxAttempts |-> n], pre |-> store,
                      at |-> now, env |-> [collab |-> collab, result |-> result],
                      f |-> generateSelectorsWithRetry(collab, result, n)]
    /\ UNCHANGED <<store, now, ticks, ops, procs, writes, observer>>

NextRetry == Discover \/ Deliver

SpecRetry == Init /\ [][NextRetry]_vars

----------------------------------------------------------------------------
(* Selector validation in the content script (selector-validator.ts).  A page
   is the list of elements its post-container selector matches; of each
   container only the text of the first element matching the text selector
   matters, null when there is none.  A text is a sequence of runs of one
   character. *)

MIN_POSTS == 2
MIN_TEXT_LENGTH == 50
MIN_RATE_PERCENT == 65

run(ch, n) == [ch |-> ch, n |-> n]

whitespace == {" ", "\n", "\t"}

RECURSIVE trimStart(_)
trimStart(text) ==
    IF Len(text) = 0 THEN text
    ELSE IF text[1].ch \in whitespace \/ text[1].n = 0 THEN trimStart(Tail(text))
    ELSE text

RECURSIVE trimEnd(_)
trimEnd(text) ==
    IF Len(text) = 0 THEN text
    ELSE IF text[Len(text)].ch \in whitespace \/ text[Len(text)].n = 0
         THEN trimEnd(SubSeq(text, 1, Len(text) - 1))
    ELSE text

\* String.prototype.trim
trim(text) == trimEnd(trimStart(text))

RECURSIVE length(_)
\* text.length
length(text) == IF Len(text) = 0 THEN 0 ELSE text[1].n + length(Tail(text))

\* selectors the DOM rejects with a SyntaxError
invalidSelector(sel) == sel = ""

\* document.querySelectorAll(postContainer): the page's containers when the
\* selector is the one the page's posts answer to
querySelectorAll(page, sel) == IF sel = page.postSelector THEN page.containers ELSE <<>>

\* container.querySelector(textContent): the container's text element, or null
querySelector(page, container, sel) ==
    IF sel = page.textSelector THEN container.text ELSE None

\* [mutant] the text is measured untrimmed
hasText_Untrimmed(page, container, sel) ==
    IF invalidSelector(sel) THEN FALSE
    ELSE LET textElement == querySelector(page, container, sel) IN
         IsSome(textElement) /\ length(Get(textElement)) >= MIN_TEXT_LENGTH

\* the body of the forEach callback: does this container count as a post with text
hasText(page, container, sel) ==
    IF invalidSelector(sel) THEN FALSE
    ELSE LET textElement == querySelector(page, container, sel) IN
         IsSome(textElement) /\ length(trim(Get(textElement))) >= MIN_TEXT_LENGTH

RECURSIVE countWithText(_, _, _, _)
\* containers.forEach(...): postsWithText after the containers from i on
countWithText(page, containers, sel, i) ==
    IF i > Len(containers) THEN 0
    ELSE (IF hasText(page, containers[i], sel) THEN 1 ELSE 0)
             + countWithText(page, containers, sel, i + 1)

\* a rate is a fraction <<numerator, denominator>>
Rate(a, b) == <<a, b>>
ZeroRate == <<0, 1>>

\* [mutant] the rate must exceed the threshold
rateAtLeast_Strict(rate, percent) == rate[1] * 100 > percent * rate[2]

\* rate >= percent / 100
rateAtLeast(rate, percent) == rate[1] * 100 >= percent * rate[2]

\* [mutant] the first exception inside the loop ends the validation
validateSelectors_Aborts(page, selectors) ==
    LET containers == IF invalidSelector(selectors.postContainer) THEN <<>>
                      ELSE querySelectorAll(page, selectors.postContainer)
        postsFound == Len(containers)
    IN  IF postsFound = 0 \/ invalidSelector(selectors.textContent)
        THEN [valid |-> FALSE, postsFound |-> postsFound, textExtractionRate |-> ZeroRate,
              errors |-> 1]
        ELSE LET postsWithText ==
                     countWithText(page, containers, selectors.textContent, 1)
                 textExtractionRate == Rate(postsWithText, postsFound)
                 valid == postsFound >= MIN_POSTS
                             /\ rateAtLeast(textExtractionRate, MIN_RATE_PERCENT)
             IN  [valid |-> valid, postsFound |-> postsFound,
                  textExtractionRate |-> textExtractionRate,
                  errors |-> (IF ~valid /\ postsFound < MIN_POSTS THEN 1 ELSE 0)
                             + (IF ~valid /\ ~rateAtLeast(textExtractionRate,
                                                          MIN_RATE_PERCENT)
                                THEN 1 ELSE 0)]

validateSelectors(page, selectors) ==
    IF invalidSelector(selectors.postContainer)
    THEN [valid |-> FALSE, postsFound |-> 0, textExtractionRate |-> ZeroRate,
          errors |-> 1]
    ELSE LET containers == querySelectorAll(page, selectors.postContainer)
             postsFound == Len(containers)
         IN  IF postsFound = 0
             THEN [valid |-> FALSE, postsFound |-> 0, textExtractionRate |-> ZeroRate,
                   errors |-> 1]
             ELSE LET postsWithText ==
                          countWithText(page, containers, selectors.textContent, 1)
                      textExtractionRate == Rate(postsWithText, postsFound)
                      valid == postsFound >= MIN_POSTS
                                  /\ rateAtLeast(textExtractionRate, MIN_RATE_PERCENT)
                  IN  [valid |-> valid, postsFound |-> postsFound,
                       textExtractionRate |-> textExtractionRate,
                       errors |-> (IF invalidSelector(selectors.textContent) THEN 1 ELSE 0)
                                  + (IF ~valid /\ postsFound < MIN_POSTS THEN 1 ELSE 0)
                                  + (IF ~valid /\ ~rateAtLeast(textExtractionRate,
                                                               MIN_RATE_PERCENT)
                                     THEN 1 ELSE 0)]

----------------------------------------------------------------------------
(* The validator on its own: validateSelectors run on every page of up to
   MaxContainers containers, each with a text of 50 characters after
   trimming, a text of 49 characters after trimming, or no text element. *)

MaxContainers == 20

\* 53 characters, 50 after trimming
Text50 == <<run(" ", 2), run("a", 50), run("\n", 1)>>
\* 53 characters, 49 after trimming (the blank inside counts)
Text49 == <<run(" ", 1), run("a", 30), run(" ", 1), run("b", 18), run(" ", 3)>>

repeat(x, n) == [i \in 1..n |-> x]

\* a page with a containers of 50 characters, b of 49 and c without a text element
Page(a, b, c) ==
    [postSelector |-> ".post", textSelector |-> ".body",
     containers |-> repeat([text |-> Some(Text50)], a)
                        \o repeat([text |-> Some(Text49)], b)
                        \o repeat([text |-> None], c)]

PostContainerSelectors == {".post", ".missing", ""}
TextContentSelectors == {".body", ""}

\* validateSelectors(selectors) runs on a page
ValidateSelectors ==
    /\ last = Idle
    /\ \E a \in 0..MaxContainers, b \in 0..MaxContainers, c \in 0..MaxContainers :
         /\ a + b + c <= MaxContainers
         /\ \E pc \in PostContainerSelectors, tc \in TextContentSelectors :
              LET selectors == [postContainer |-> pc, textContent |-> tc,
                                author |-> Undefined, timestamp |-> Undefined]
              IN  last' = [op |-> "validateSelectors", req |-> selectors, pre |-> store,
                           at |-> now,
                           env |-> [long |-> a, short |-> b, bare |-> c],
                           f |-> validateSelectors(Page(a, b, c), selectors)]
    /\ UNCHANGED <<store, now, ticks, ops, procs, writes, observer>>

NextValidator == ValidateSelectors \/ Deliver

SpecValidator == Init /\ [][NextValidator]_vars

----------------------------------------------------------------------------
(* The static lookup on its own: getStaticSelectorsForDomain called with every
   domain of up to MaxLabels labels, written in lower or in upper case. *)

MaxLabels == 4

L_example == <<"e","x","a","m","p","l","e">>
L_blog == <<"b","l","o","g">>

Labels ==
    { L_www, L_blog, L_twitter, L_example, L_com, L_co, L_uk, L_constructor }

\* further domains: the other registered platforms and compound TLDs
FurtherDomains ==
    { <<L_mobile, L_twitter, L_com>>, <<L_m, L_facebook, L_com>>,
      <<L_www, L_linkedin, L_com>>, <<L_blog, L_mobile, L_x, L_com>>,
      <<L_example, L_com, L_au>>, <<L_blog, L_example, L_co, L_jp>>,
      <<L_www, L_example, L_co, L_in>>, <<L_blog, L_www, L_example, L_com, L_br>>,
      <<L_example, L_co, L_com>> }

toUpperCaseChar(c) ==
    IF \E i \in DOMAIN LowerCaseLetters : LowerCaseLetters[i] = c
    THEN UpperCaseLetters[CHOOSE i \in DOMAIN LowerCaseLetters : LowerCaseLetters[i] = c]
    ELSE c

toUpperCase(s) == [i \in 1..Len(s) |-> toUpperCaseChar(s[i])]

\* the domain with these labels, in lower or in upper case
DomainOf(labels, upper) == IF upper THEN toUpperCase(join(labels)) ELSE join(labels)

\* getStaticSelectorsForDomain(domain) runs
StaticLookup ==
    /\ last = Idle
    /\ \E labels \in UNION { [1..n -> Labels] : n \in 1..MaxLabels } \cup FurtherDomains,
          upper \in BOOLEAN :
           LET domain == DomainOf(labels, upper) IN
           last' = [op |-> "static", req |-> [domain |-> domain], pre |-> store, at |-> now,
                    env |-> [labels |-> labels, upper |-> upper],
                    f |-> [selectors |-> getStaticSelectorsForDomain(domain),
                           baseDomain |-> extractBaseDomain(normalizeDomain(domain))]]
    /\ UNCHANGED <<store, now, ticks, ops, procs, writes, observer>>

NextStatic == StaticLookup \/ Deliver

SpecStatic == Init /\ [][NextStatic]_vars

----------------------------------------------------------------------------
(* handleDiscoverSelectors step by step.  The handler is an async function:
   it runs until an await, and other handler runs take their steps while it
   waits.  Its awaits are the storage calls of getCachedSelectors (and of the
   eviction inside it), the discovery, and the two storage calls of
   setCachedSelectors.  pc names the await a run is suspended at. *)

RaceDomains == {A_IO, X_COM}
RaceSamples == {None, Some("<article class=post><p class=body>..</p></article>")}

\* TIER 3 and the sentinel, reached once the earlier tiers are over
fallThrough(f, req) == emptyTier(staticTier(f, req), req)

\* the run goes on after the cache tier found nothing: to the discovery when
\* there is a sample, else through the static tier
afterMiss(proc, f) ==
    IF entersDiscovery(f, proc.req)
    THEN [proc EXCEPT !.pc = "discover", !.f = f]
    ELSE [proc EXCEPT !.pc = "done", !.f = fallThrough(f, proc.req)]

\* a message arrives and the handler runs to its first await
RaceStart(p) ==
    /\ procs[p].pc = "idle"
    /\ \A q \in Procs : q < p => procs[q].pc # "idle"
    /\ \E d \in RaceDomains, h \in RaceSamples, fs \in BOOLEAN :
         LET req == [domain |-> d, htmlSample |-> h, forceStatic |-> fs]
             f == forcedStaticTier(newFrame(<<>>), req)
         IN  procs' = [procs EXCEPT ![p] =
                 IF fs
                 THEN [pc |-> "done", req |-> req, f |-> fallThrough(f, req),
                       entry |-> None, sawWrites |-> Len(writes)]
                 ELSE [pc |-> "lookup", req |-> req, f |-> f,
                       entry |-> None, sawWrites |-> Len(writes)]]
    /\ UNCHANGED <<store, now, ticks, ops, last, writes, observer>>

\* getCachedSelectors: chrome.storage.local.get resolves or rejects
RaceLookup(p) ==
    /\ procs[p].pc = "lookup"
    /\ \E readFails \in BOOLEAN :
         LET proc == procs[p]
             d == proc.req.domain
             f == [proc.f EXCEPT !.gets = @ + 1, !.cacheRead = TRUE,
                                 !.readFailed = readFails]
         IN  procs' = [procs EXCEPT ![p] =
                 IF readFails \/ d \notin DOMAIN store
                 THEN afterMiss([proc EXCEPT !.sawWrites = Len(writes)], f)
                 ELSE IF isExpired(store[d], now)
                 THEN [proc EXCEPT !.pc = "evictGet", !.f = f]
                 ELSE [proc EXCEPT !.pc = "done",
                          !.f = return(sendResponse([f EXCEPT !.cacheEntry = Some(store[d])],
                                                    cacheResponse(d, store[d])))]]
    /\ UNCHANGED <<store, now, ticks, ops, last, writes, observer>>

\* removeCachedSelectors inside getCachedSelectors: its storage.get
RaceEvictGet(p) ==
    /\ procs[p].pc = "evictGet"
    /\ \E fails \in BOOLEAN :
         LET proc == procs[p]
             f == [proc.f EXCEPT !.gets = @ + 1, !.evictFailed = fails]
         IN  procs' = [procs EXCEPT ![p] =
                 IF fails THEN afterMiss(proc, f)
                 ELSE [proc EXCEPT !.pc = "evictSet", !.f = [f EXCEPT !.store = store]]]
    /\ UNCHANGED <<store, now, ticks, ops, last, writes, observer>>

\* removeCachedSelectors inside getCachedSelectors: delete, then its storage.set
RaceEvictSet(p) ==
    /\ procs[p].pc = "evictSet"
    /\ \E fails \in BOOLEAN :
         LET proc == procs[p]
             d == proc.req.domain
             f == [proc.f EXCEPT !.sets = @ + 1, !.evictFailed = fails]
         IN  /\ procs' = [procs EXCEPT ![p] = afterMiss(proc, f)]
             /\ store' = IF fails THEN store ELSE deleteKey(proc.f.store, d)
             /\ writes' = IF fails THEN writes
                          ELSE Append(writes, [proc |-> p, domain |-> d, entry |-> None])
    /\ UNCHANGED <<now, ticks, ops, last, observer>>

\* generateSelectorsWithRetry settles
RaceDiscover(p) ==
    /\ procs[p].pc = "discover"
    /\ \E collab \in Collaborators :
         \E result \in (IF \E i \in DOMAIN collab : collab[i].ok
                             /\ \A j \in 1..(i - 1) : ~includesApiKey(collab[j].message)
                                                        /\ ~collab[j].ok
                        THEN DiscoveryResults
                        ELSE {CHOOSE r \in DiscoveryResults : TRUE}) :
           LET proc == procs[p]
               f == discoveryCall(proc.f, proc.req, collab, result)
           IN  procs' = [procs EXCEPT ![p] =
                   IF f.discovery = "ok"
                   THEN [proc EXCEPT !.pc = "writeGet", !.f = f]
                   ELSE [proc EXCEPT !.pc = "done", !.f = fallThrough(f, proc.req)]]
    /\ UNCHANGED <<store, now, ticks, ops, last, writes, observer>>

\* setCachedSelectors: its storage.get; the entry is built as soon as it resolves
RaceWriteGet(p) ==
    /\ procs[p].pc = "writeGet"
    /\ \E fails \in BOOLEAN :
         LET proc == procs[p]
             result == Get(proc.f.discovered)
             f == [proc.f EXCEPT !.gets = @ + 1, !.writeFailed = fails]
         IN  procs' = [procs EXCEPT ![p] =
                 IF fails
                 THEN [proc EXCEPT !.pc = "done", !.f = fallThrough(f, proc.req)]
                 ELSE [proc EXCEPT !.pc = "writeSet", !.f = [f EXCEPT !.store = store],
                          !.entry = Some(newEntry(now, proc.req.domain, result.selectors,
                                             result.confidence,
                                             [postsFound |-> 0, textExtractionRate |-> 0]))]]
    /\ UNCHANGED <<store, now, ticks, ops, last, writes, observer>>

\* setCachedSelectors: cache[domain] = entry, then its storage.set; the response
\* follows a write that went through
RaceWriteSet(p) ==
    /\ procs[p].pc = "writeSet"
    /\ \E fails \in BOOLEAN :
         LET proc == procs[p]
             d == proc.req.domain
             f == [proc.f EXCEPT !.sets = @ + 1, !.writeFailed = fails]
         IN  IF fails
             THEN /\ procs' = [procs EXCEPT ![p] =
                         [proc EXCEPT !.pc = "done", !.f = fallThrough(f, proc.req)]]
                  /\ UNCHANGED <<store, writes, observer>>
             ELSE /\ store' = putKey(proc.f.store, d, Get(proc.entry))
                  /\ writes' = Append(writes, [proc |-> p, domain |-> d, entry |-> proc.entry])
                  /\ procs' = [procs EXCEPT ![p] =
                         [proc EXCEPT !.pc = "done",
                             !.f = return(sendResponse([f EXCEPT !.store = store'],
                                       dynamicResponse(d, Get(proc.f.discovered))))]]
    /\ UNCHANGED <<now, ticks, ops, last, observer>>

NextRace ==
    \/ Tick
    \/ \E p \in Procs :
         \/ RaceStart(p)
         \/ RaceLookup(p)
         \/ RaceEvictGet(p)
         \/ RaceEvictSet(p)
         \/ RaceDiscover(p)
         \/ RaceWriteGet(p)
         \/ RaceWriteSet(p)

SpecRace == Init /\ [][NextRace]_vars

----------------------------------------------------------------------------
(* Validation reports in flight together.  handleValidationResult awaits the
   storage.get and the storage.set of updateValidationTimestamp or
   removeCachedSelectors; two runs interleave at these awaits, and a resolution
   request may run to its end between any two of their steps. *)

\* what handleDiscoverSelectors may do with the request, over the storage faults
\* and the collaborator's behaviours
ResolveOutcomes(st, t, req) ==
    { handleDiscoverSelectors(st, t, req, readFails, "none", collab, result, writeFault) :
        readFails \in BOOLEAN, collab \in Collaborators, result \in DiscoveryResults,
        writeFault \in Faults }

\* what handleDiscoverSelectors may do with the request when the storage works
SeedOutcomes(st, t, req) ==
    { handleDiscoverSelectors(st, t, req, FALSE, "none", collab, result, "none") :
        collab \in Collaborators, result \in DiscoveryResults }

\* a DISCOVER_SELECTORS request handled from its first to its last step; its
\* write to the storage, if any, is logged as run 0
Seed ==
    /\ ops < MaxOps
    /\ \E d \in RaceDomains :
         LET req == [domain |-> d,
                     htmlSample |-> Some("<article class=post><p class=body>..</p></article>"),
                     forceStatic |-> FALSE]
         IN  \E f \in SeedOutcomes(store, now, req) :
               /\ store' = f.store
               /\ writes' = IF f.store = store THEN writes
                            ELSE Append(writes,
                                   [proc |-> 0, domain |-> d,
                                    entry |-> IF d \in DOMAIN f.store THEN Some(f.store[d])
                                              ELSE None])
    /\ ops' = ops + 1
    /\ UNCHANGED <<now, ticks, last, procs, observer>>

\* the acknowledgement that ends every run of handleValidationResult
acknowledge(proc) ==
    [proc EXCEPT !.pc = "done",
                 !.f = return(sendResponse(@, [success |-> TRUE]))]

\* a VALIDATION_RESULT message arrives and the handler runs to its first await
ReportStart(p) ==
    /\ procs[p].pc = "idle"
    /\ \A q \in Procs : q < p => procs[q].pc # "idle"
    /\ \E d \in RaceDomains, valid \in BOOLEAN,
          m \in {r \in ReportedMetrics : r.postsFound > 0} :
         procs' = [procs EXCEPT ![p] =
             [pc |-> "reportGet",
              req |-> [domain |-> d, valid |-> valid, postsFound |-> m.postsFound,
                       textExtractionRate |-> m.textExtractionRate],
              f |-> newFrame(<<>>), entry |-> None, sawWrites |-> Len(writes)]]
    /\ UNCHANGED <<store, now, ticks, ops, last, writes, observer>>

\* the storage.get of updateValidationTimestamp or removeCachedSelectors settles;
\* the map it returned is changed in memory
ReportGet(p) ==
    /\ procs[p].pc = "reportGet"
    /\ \E fails \in BOOLEAN :
         LET proc == procs[p]
             d == proc.req.domain
             f == [proc.f EXCEPT !.gets = @ + 1]
             metrics == [postsFound |-> proc.req.postsFound,
                         textExtractionRate |-> proc.req.textExtractionRate]
         IN  procs' = [procs EXCEPT ![p] =
                 IF fails \/ (proc.req.valid /\ d \notin DOMAIN store)
                 THEN acknowledge([proc EXCEPT !.f = f])
                 ELSE IF proc.req.valid
                 THEN [proc EXCEPT !.pc = "reportSet",
                          !.f = [f EXCEPT !.store =
                                    [store EXCEPT ![d] =
                                        [@ EXCEPT !.lastValidatedAt = now,
                                                  !.validationMetrics = metrics]]]]
                 ELSE [proc EXCEPT !.pc = "reportSet",
                          !.f = [f EXCEPT !.store = deleteKey(store, d)]]]
    /\ UNCHANGED <<store, now, ticks, ops, last, writes, observer>>

\* the storage.set of the whole map settles, and the report is acknowledged
ReportSet(p) ==
    /\ procs[p].pc = "reportSet"
    /\ \E fails \in BOOLEAN :
         LET proc == procs[p]
             d == proc.req.domain
             f == [proc.f EXCEPT !.sets = @ + 1]
         IN  /\ procs' = [procs EXCEPT ![p] = acknowledge([proc EXCEPT !.f = f])]
             /\ store' = IF fails THEN store ELSE proc.f.store
             /\ writes' = IF fails THEN writes
                          ELSE Append(writes,
                                 [proc |-> p, domain |-> d,
                                  entry |-> IF proc.req.valid THEN Some(proc.f.store[d])
                                            ELSE None])
    /\ UNCHANGED <<now, ticks, ops, last, observer>>

NextReports ==
    \/ Seed
    \/ \E p \in Procs :
         \/ ReportStart(p)
         \/ ReportGet(p)
         \/ ReportSet(p)

SpecReports == Init /\ [][NextReports]_vars

----------------------------------------------------------------------------
(* A resolution request in flight on a cache that already holds entries:
   the first run of SpecRace, with further requests handled from their first
   to their last step between any two of its steps, and the clock. *)

FirstRun == CHOOSE p \in Procs : \A q \in Procs : p <= q

NextExpiry ==
    \/ Tick
    \/ Seed
    \/ \E p \in {FirstRun} :
         \/ RaceStart(p)
         \/ RaceLookup(p)
         \/ RaceEvictGet(p)
         \/ RaceEvictSet(p)
         \/ RaceDiscover(p)
         \/ RaceWriteGet(p)
         \/ RaceWriteSet(p)

SpecExpiry == Init /\ [][NextExpiry]_vars

----------------------------------------------------------------------------
(* The Runtime Observer of one tab, page load after page load, against the
   handlers of the service worker.  On a page load it requests selectors,
   validates what it receives on the page, reports the outcome, and on a
   failed validation asks once more with forceStatic. *)

MaxLoads == 2

ObserverDomains == {A_IO, X_COM}

\* pages whose posts answer to the discovered selectors or to the static ones,
\* with no post, with three posts with text, or with one of three posts with text
ObserverPages ==
    { [postSelector |-> ps[1], textSelector |-> ps[2], containers |-> cs] :
        ps \in { <<".post", ".body">>,
                 <<TwitterSelectors.postContainer, TwitterSelectors.textContent>> },
        cs \in { <<>>,
                 repeat([text |-> Some(Text50)], 3),
                 <<[text |-> Some(Text50)], [text |-> Some(Text49)], [text |-> None]>> } }

\* sampleDOM(): null when the page has no candidate element
sampleOf(page) ==
    IF Len(page.containers) = 0 THEN None
    ELSE Some("<article class=post><p class=body>..</p></article>")

\* [mutant] a failed validation is always followed by another request
observerAfterValidation_Loops(retried, valid) ==
    IF valid THEN "observing" ELSE "retrying"

\* what the observer does once the validation outcome is reported
observerAfterValidation(retried, valid) ==
    IF valid THEN "observing"
    ELSE IF ~retried THEN "retrying"
    ELSE "inactive"

\* a page is loaded in the tab
PageLoad ==
    /\ observer.phase \in {"unloaded", "observing", "inactive"}
    /\ observer.loads < MaxLoads
    /\ \E d \in ObserverDomains, page \in ObserverPages :
         observer' = [phase |-> "loaded", loads |-> observer.loads + 1,
                      domain |-> stripWww(d), page |-> page,
                      requests |-> <<>>, responses |-> <<>>,
                      validations |-> <<>>, reports |-> <<>>, retried |-> FALSE]
    /\ UNCHANGED <<store, now, ticks, ops, last, procs, writes>>

\* the observer sends a DISCOVER_SELECTORS message and the handler answers it
request(forceStatic) ==
    LET req == [domain |-> observer.domain, htmlSample |-> sampleOf(observer.page),
                forceStatic |-> forceStatic]
    IN  \E f \in ResolveOutcomes(store, now, req) :
          /\ store' = f.store
          /\ observer' = [observer EXCEPT !.phase = "received",
                                          !.requests = Append(@, req),
                                          !.responses = @ \o f.responses,
                                          !.retried = forceStatic]

ObserverRequest ==
    /\ observer.phase = "loaded"
    /\ request(FALSE)
    /\ UNCHANGED <<now, ticks, ops, last, procs, writes>>

ObserverRetry ==
    /\ observer.phase = "retrying"
    /\ request(TRUE)
    /\ UNCHANGED <<now, ticks, ops, last, procs, writes>>

\* the observer treats the response: the sentinel makes it inactive; any other
\* selectors are validated on the page and the outcome is reported
ObserverReceive ==
    /\ observer.phase = "received"
    /\ LET r == observer.responses[Len(observer.responses)] IN
       IF r.selectors.postContainer = ""
       THEN /\ observer' = [observer EXCEPT !.phase = "inactive"]
            /\ UNCHANGED store
       ELSE LET v == validateSelectors(observer.page, r.selectors)
                payload == [domain |-> observer.domain, valid |-> v.valid,
                            postsFound |-> v.postsFound,
                            textExtractionRate |-> v.textExtractionRate]
            IN  \E fault \in Faults :
                  LET h == handleValidationResult(store, now, payload, fault) IN
                  /\ store' = h.store
                  /\ observer' = [observer EXCEPT
                         !.phase = observerAfterValidation(observer.retried, v.valid),
                         !.validations = Append(@, v),
                         !.reports = Append(@, payload)]
    /\ UNCHANGED <<now, ticks, ops, last, procs, writes>>

NextObserver == PageLoad \/ ObserverRequest \/ ObserverReceive \/ ObserverRetry \/ Tick

SpecObserver == Init /\ [][NextObserver]_vars

----------------------------------------------------------------------------
(* The cache store on its own: the exported operations of selector-cache.ts
   called directly, one after the other, with every storage fault, and the
   validation-report handler that calls two of them. *)

CacheDomains == {A_IO, X_COM}

\* what set is called with
CachedValues ==
    { [selectors |-> TwitterSelectors, confidence |-> 85],
      [selectors |-> [postContainer |-> ".post", textContent |-> ".body",
                      author |-> ".byline", timestamp |-> Undefined],
       confidence |-> 72] }

\* the time that passes between two calls: around the revalidation interval and
\* around the TTL
CacheClockSteps ==
    { REVALIDATION_INTERVAL_MS - 1, REVALIDATION_INTERVAL_MS, REVALIDATION_INTERVAL_MS + 1,
      CACHE_TTL_MS, CACHE_TTL_MS + 1 }

CacheTick ==
    /\ last = Idle
    /\ ticks < MaxTicks
    /\ \E step \in CacheClockSteps : now' = now + step
    /\ ticks' = ticks + 1
    /\ UNCHANGED <<store, ops, last, procs, writes, observer>>

\* getCachedSelectors(d)
CacheGet ==
    /\ last = Idle
    /\ ops < MaxOps
    /\ \E d \in CacheDomains, readFails \in BOOLEAN :
         \E evictFault \in (IF ~readFails /\ evicts(store, now, d) THEN Faults ELSE {"none"}) :
           LET r == getCachedSelectors(store, now, d, readFails, evictFault) IN
           /\ store' = r.store
           /\ last' = [op |-> "get", req |-> [domain |-> d], pre |-> store, at |-> now,
                       env |-> [readFails |-> readFails, evictFault |-> evictFault],
                       f |-> r]
    /\ ops' = ops + 1
    /\ UNCHANGED <<now, ticks, procs, writes, observer>>

\* setCachedSelectors(d, selectors, confidence, validationMetrics)
CacheSet ==
    /\ last = Idle
    /\ ops < MaxOps
    /\ \E d \in CacheDomains, v \in CachedValues, fault \in Faults :
         LET m == [postsFound |-> 0, textExtractionRate |-> 0]
             r == setCachedSelectors(store, now, d, v.selectors, v.confidence, m, fault)
         IN  /\ store' = r.store
             /\ last' = [op |-> "set",
                         req |-> [domain |-> d, selectors |-> v.selectors,
                                  confidence |-> v.confidence, validationMetrics |-> m],
                         pre |-> store, at |-> now, env |-> [fault |-> fault], f |-> r]
    /\ ops' = ops + 1
    /\ UNCHANGED <<now, ticks, procs, writes, observer>>

\* updateValidationTimestamp(d, validationMetrics)
CacheUpdateValidation ==
    /\ last = Idle
    /\ ops < MaxOps
    /\ \E d \in CacheDomains, m \in ReportedMetrics, fault \in Faults :
         LET r == updateValidationTimestamp(store, now, d, m, fault) IN
         /\ store' = r.store
         /\ last' = [op |-> "updateValidation",
                     req |-> [domain |-> d, validationMetrics |-> m],
                     pre |-> store, at |-> now, env |-> [fault |-> fault], f |-> r]
    /\ ops' = ops + 1
    /\ UNCHANGED <<now, ticks, procs, writes, observer>>

\* removeCachedSelectors(d)
CacheRemove ==
    /\ last = Idle
    /\ ops < MaxOps
    /\ \E d \in CacheDomains, fault \in Faults :
         LET r == removeCachedSelectors(store, d, fault) IN
         /\ store' = r.store
         /\ last' = [op |-> "remove", req |-> [domain |-> d],
                     pre |-> store, at |-> now, env |-> [fault |-> fault], f |-> r]
    /\ ops' = ops + 1
    /\ UNCHANGED <<now, ticks, procs, writes, observer>>

\* needsRevalidation(entry) on an entry of the cache
CacheNeedsRevalidation ==
    /\ last = Idle
    /\ \E d \in DOMAIN store :
         last' = [op |-> "needsRevalidation", req |-> [entry |-> store[d]],
                  pre |-> store, at |-> now, env |-> <<>>,
                  f |-> [result |-> needsRevalidation(store[d], now)]]
    /\ UNCHANGED <<store, now, ticks, ops, procs, writes, observer>>

NextCache ==
    \/ CacheTick
    \/ CacheGet
    \/ CacheSet
    \/ CacheUpdateValidation
    \/ CacheRemove
    \/ CacheNeedsRevalidation
    \/ Validate
    \/ Stats
    \/ Deliver

SpecCache == Init /\ [][NextCache]_vars

----------------------------------------------------------------------------
(* The DOM sampler (sampleDOM).  Its input is the list of candidate elements
   in discovery order, each given by the HTML cleanElement serializes it to;
   HTML is a sequence of one-character strings. *)

\* array.slice(0, n), n >= 0
slice(xs, n) == IF Len(xs) <= n THEN xs ELSE SubSeq(xs, 1, n)

RECURSIVE joinBlankLine(_)
\* parts.join('\n\n')
joinBlankLine(parts) ==
    IF Len(parts) = 0 THEN <<>>
    ELSE IF Len(parts) = 1 THEN parts[1]
    ELSE parts[1] \o <<"\n", "\n">> \o joinBlankLine(Tail(parts))

\* '\n<!-- truncated -->'
TruncationMarker ==
    <<"\n", "<", "!", "-", "-", " ", "t", "r", "u", "n", "c", "a", "t", "e", "d",
      " ", "-", "-", ">">>

\* [mutant] the marker is appended to the whole sample
hardTruncate_KeepsAll(html, maxSampleSize) == html \o TruncationMarker

\* finalHTML.substring(0, maxSampleSize) + '\n<!-- truncated -->'
hardTruncate(html, maxSampleSize) == slice(html, maxSampleSize) \o TruncationMarker

sampleDOM(candidates, maxElements, maxSampleSize) ==
    IF Len(candidates) = 0 THEN None
    ELSE LET sampled == slice(candidates, maxElements)
             cleanedHTML == joinBlankLine(sampled)
         IN  IF Len(cleanedHTML) <= maxSampleSize THEN Some(cleanedHTML)
             ELSE LET reducedSample == slice(sampled, maxElements \div 2)
                      finalHTML == joinBlankLine(reducedSample)
                  IN  IF Len(finalHTML) <= maxSampleSize THEN Some(finalHTML)
                      ELSE Some(hardTruncate(finalHTML, maxSampleSize))

MaxCandidates == 3
MaxElementsBound == 3
MaxSampleSizeBound == 8

\* what cleanElement may serialize a candidate to: short, medium and long
CleanedElements ==
    { <<"a">>, <<"b", "b", "b">>, <<"c", "c", "c", "c", "c", "c">> }

CandidateLists ==
    UNION { [1..n -> CleanedElements] : n \in 0..MaxCandidates }

\* sampleDOM({maxElements, maxSampleSize}) runs on a page
SampleDOM ==
    /\ last = Idle
    /\ \E candidates \in CandidateLists, maxElements \in 1..MaxElementsBound,
          maxSampleSize \in 0..MaxSampleSizeBound :
         last' = [op |-> "sampleDOM",
                  req |-> [maxElements |-> maxElements, maxSampleSize |-> maxSampleSize],
                  pre |-> store, at |-> now, env |-> [candidates |-> candidates],
                  f |-> [result |-> sampleDOM(candidates, maxElements, maxSampleSize)]]
    /\ UNCHANGED <<store, now, ticks, ops, procs, writes, observer>>

NextSampler == SampleDOM \/ Deliver

SpecSampler == Init /\ [][NextSampler]_vars

----------------------------------------------------------------------------
(* The resolution handler on its own, with a single-label host name among
   the domains of the requests. *)

ResolveRequest == ResolveIn(RequestDomains)

NextRequest == Tick \/ ResolveRequest \/ Deliver

SpecRequest == Init /\ [][NextRequest]_vars

----------------------------------------------------------------------------
(* The content script on one page, from startObserving on.  Its state is
   held in observer: the page (which post elements are in the document and
   the text under each), the script's variables (currentSelectors,
   processedElements, mutationQueue, processingDebounceTimer), the timers
   that are armed, and a history of what was done for each post element and
   each MutationRecord (retried: the posts processPost has left for a retry;
   uncleared: a debounce callback ended with records
   still in the queue). *)

MaxRecords == 2

\* OBSERVER_CONFIG.minTextLength
minTextLength == 50

\* the elements that match selectors.postContainer, in document order
PostOrder == <<"post1", "post2">>
Posts == {PostOrder[i] : i \in 1..Len(PostOrder)}

\* an element that is no post and holds none
OtherElement == "div"

\* what postElement.querySelector(textContent) finds: nothing, or an element
\* with 49 or with 50 characters after trimming
PostTexts == {None, Some(Text49), Some(Text50)}

\* the records a MutationObserver delivers: an added node, or a changed
\* class/data-urn attribute of a post
MutationKinds ==
    { [type |-> "childList", node |-> n] : n \in Posts \cup {OtherElement} }
        \cup { [type |-> "attributes", node |-> e] : e \in Posts }

\* textElement.textContent?.trim().length, for the texts of the page
trimmedLength == [t \in {Get(e) : e \in PostTexts \ {None}} |-> length(trim(t))]

\* processPost returns before marking: the post stays out of processedElements
willRetry(cs, postElement) == [cs EXCEPT !.retried = @ \cup {postElement}]

\* [mutant] the processed check is left out
processPost_Unguarded(cs, postElement) ==
    IF invalidSelector(cs.currentSelectors.textContent) THEN [cs |-> cs, threw |-> TRUE]
    ELSE LET textElement == cs.text[postElement] IN
         IF ~IsSome(textElement) THEN [cs |-> willRetry(cs, postElement), threw |-> FALSE]
         ELSE LET text == trimmedLength[Get(textElement)] IN
              IF text < minTextLength
              THEN [cs |-> willRetry(cs, postElement), threw |-> FALSE]
              ELSE LET marked == [cs EXCEPT !.processedElements = @ \cup {postElement},
                                            !.extracted[postElement] = text,
                                            !.marks[postElement] = @ + 1]
                   IN  IF cs.context
                       THEN [cs |-> [marked EXCEPT !.sent[postElement] = @ + 1],
                             threw |-> FALSE]
                       ELSE [cs |-> marked, threw |-> TRUE]

\* processPost: the script's state afterwards, and whether it threw.
\* querySelector throws for an invalid selector; chrome.runtime.sendMessage
\* throws once the extension context is invalidated.
processPost(cs, postElement) ==
    IF postElement \in cs.processedElements THEN [cs |-> cs, threw |-> FALSE]
    ELSE IF invalidSelector(cs.currentSelectors.textContent)
    THEN [cs |-> cs, threw |-> TRUE]
    ELSE LET textElement == cs.text[postElement] IN
         IF ~IsSome(textElement) THEN [cs |-> willRetry(cs, postElement), threw |-> FALSE]
         ELSE LET text == trimmedLength[Get(textElement)] IN
              IF text < minTextLength
              THEN [cs |-> willRetry(cs, postElement), threw |-> FALSE]
              ELSE LET marked == [cs EXCEPT !.processedElements = @ \cup {postElement},
                                            !.extracted[postElement] = text,
                                            !.marks[postElement] = @ + 1]
                   IN  IF cs.context
                       THEN [cs |-> [marked EXCEPT !.sent[postElement] = @ + 1],
                             threw |-> FALSE]
                       ELSE [cs |-> marked, threw |-> TRUE]

RECURSIVE processEach(_, _)
\* posts.forEach((post) => processPost(post, ...)): ends at the first throw
processEach(cs, posts) ==
    IF Len(posts) = 0 THEN [cs |-> cs, threw |-> FALSE]
    ELSE LET r == processPost(cs, posts[1]) IN
         IF r.threw THEN r ELSE processEach(r.cs, Tail(posts))

\* the posts of the document that are not in processedElements
unprocessedPosts(cs) ==
    SelectSeq(PostOrder, LAMBDA e : cs.inDocument[e] /\ e \notin cs.processedElements)

\* [mutant] the scan processes nothing
scanForMissedPosts_Idle(cs) == cs

\* scanForMissedPosts: an exception ends the scan and is logged
scanForMissedPosts(cs) == processEach(cs, unprocessedPosts(cs)).cs

\* processExistingPosts: an exception ends the pass and is logged
processExistingPosts(cs) == processEach(cs, unprocessedPosts(cs)).cs

RECURSIVE collectPosts(_, _, _)
\* the newPosts list processMutationBatch builds from the records
collectPosts(cs, mutations, newPosts) ==
    IF Len(mutations) = 0 THEN newPosts
    ELSE LET m == mutations[1]
             seen == {newPosts[i] : i \in 1..Len(newPosts)}
             add == /\ m.node \in Posts
                    /\ m.node \notin seen
                    /\ (m.type = "attributes" => m.node \notin cs.processedElements)
         IN  collectPosts(cs, Tail(mutations),
                          IF add THEN Append(newPosts, m.node) ELSE newPosts)

\* processMutationBatch: nothing catches what processPost throws
processMutationBatch(cs, mutations) ==
    processEach(cs, collectPosts(cs, mutations, <<>>))

\* handleMutations with currentSelectors set: the records are queued, the
\* timer of the previous delivery is cleared and a new one is armed
handleMutations(cs, mutations) ==
    LET id == cs.delivered + Len(mutations)
        records == [i \in 1..Len(mutations) |->
                       [id |-> cs.delivered + i, type |-> mutations[i].type,
                        node |-> mutations[i].node]]
    IN  [cs EXCEPT !.mutationQueue = @ \o records,
                   !.delivered = id,
                   !.timers = (@ \ {cs.processingDebounceTimer[i] :
                                       i \in 1..Len(cs.processingDebounceTimer)}) \cup {id},
                   !.processingDebounceTimer = Some(id)]

\* the callback of the debounce timer
debounceCallback(cs) ==
    LET queued == {cs.mutationQueue[i].id : i \in 1..Len(cs.mutationQueue)}
        handed == [cs EXCEPT !.handed = [i \in DOMAIN @ |->
                                            IF i \in queued THEN @[i] + 1 ELSE @[i]]]
        r == processMutationBatch(handed, cs.mutationQueue)
    IN  IF r.threw THEN [r.cs EXCEPT !.uncleared = TRUE]
        ELSE [r.cs EXCEPT !.mutationQueue = <<>>, !.processingDebounceTimer = None]

\* startObserving(selectors), called with currentSelectors just set, on a page
StartObserving ==
    /\ observer.phase = "unloaded"
    /\ \E inDocument \in [Posts -> BOOLEAN], text \in [Posts -> PostTexts],
          tc \in TextContentSelectors :
         LET cs == [phase |-> "observing",
                    currentSelectors |-> [postContainer |-> ".post", textContent |-> tc,
                                          author |-> Undefined, timestamp |-> Undefined],
                    context |-> TRUE,
                    inDocument |-> inDocument, text |-> text,
                    processedElements |-> {},
                    retried |-> {},
                    extracted |-> [e \in Posts |-> 0],
                    marks |-> [e \in Posts |-> 0],
                    sent |-> [e \in Posts |-> 0],
                    mutationQueue |-> <<>>,
                    processingDebounceTimer |-> None,
                    timers |-> {},
                    delivered |-> 0,
                    uncleared |-> FALSE,
                    handed |-> [i \in 1..MaxRecords |-> 0]]
         IN  observer' = processExistingPosts(cs)
    /\ UNCHANGED <<store, now, ticks, ops, last, procs, writes>>

\* the page loads text into a post: the text element appears, or its text
\* grows
TextLoads ==
    /\ observer.phase = "observing"
    /\ \E e \in Posts, t \in PostTexts :
         /\ IsSome(t)
         /\ \/ ~IsSome(observer.text[e])
            \/ /\ IsSome(observer.text[e])
               /\ trimmedLength[Get(observer.text[e])] < trimmedLength[Get(t)]
         /\ observer' = [observer EXCEPT !.text[e] = t]
    /\ UNCHANGED <<store, now, ticks, ops, last, procs, writes>>

\* the page removes a post from the document
PostRemoved ==
    /\ observer.phase = "observing"
    /\ \E e \in Posts :
         /\ observer.inDocument[e]
         /\ observer' = [observer EXCEPT !.inDocument[e] = FALSE]
    /\ UNCHANGED <<store, now, ticks, ops, last, procs, writes>>

\* the extension is reloaded under the page
ContextInvalidated ==
    /\ observer.phase = "observing"
    /\ observer.context
    /\ observer' = [observer EXCEPT !.context = FALSE]
    /\ UNCHANGED <<store, now, ticks, ops, last, procs, writes>>

\* the MutationObserver delivers one or two records; the posts they add are
\* in the document
MutationsDelivered ==
    /\ observer.phase = "observing"
    /\ \E m1 \in MutationKinds, more \in {<<>>} \cup {<<m>> : m \in MutationKinds} :
         LET mutations == <<m1>> \o more
             added == {mutations[i].node : i \in {j \in 1..Len(mutations) :
                                                    mutations[j].type = "childList"}}
             page == [observer EXCEPT !.inDocument =
                         [e \in Posts |-> @[e] \/ e \in added]]
         IN  /\ observer.delivered + Len(mutations) <= MaxRecords
             /\ observer' = handleMutations(page, mutations)
    /\ UNCHANGED <<store, now, ticks, ops, last, procs, writes>>

\* an armed debounce timer fires
DebounceFires ==
    /\ observer.phase = "observing"
    /\ \E id \in observer.timers :
         observer' = debounceCallback([observer EXCEPT !.timers = @ \ {id}])
    /\ UNCHANGED <<store, now, ticks, ops, last, procs, writes>>

\* the 2-second interval fires
ScanFires ==
    /\ observer.phase = "observing"
    /\ observer' = scanForMissedPosts(observer)
    /\ UNCHANGED <<store, now, ticks, ops, last, procs, writes>>

NextContent ==
    \/ StartObserving
    \/ TextLoads
    \/ PostRemoved
    \/ ContextInvalidated
    \/ MutationsDelivered
    \/ DebounceFires
    \/ ScanFires

SpecContent == Init /\ [][NextContent]_vars

\* the interval set in startObserving fires again and again
SpecContentFair == Init /\ [][NextContent]_vars /\ WF_vars(ScanFires)

----------------------------------------------------------------------------
(* Vocabulary of the properties.  A property about a handler run is stated
   on the state right after the run: last holds the request, the selector
   map before the run (pre), the clock (at), the environment's choices (env)
   and the handler's frame (f); store is the selector map after the run. *)

Resolved == last.op = "resolve"
Validated == last.op = "validate"

\* the single response of the run
Response == last.f.responses[1]

\* the selector map holds an entry for d that is not older than the TTL at time t
Servable(st, t, d) == d \in DOMAIN st /\ t - st[d].discoveredAt <= 30 * 24 * 60 * 60

\* what the static registry answers for d
RegistryAnswer(d) ==
    IF d \in DOMAIN staticSelectorsFor THEN staticSelectorsFor[d]
    ELSE getStaticSelectorsForDomain(d)

\* the static registry has a match for d
HasStatic(d) == IsSome(RegistryAnswer(d))

\* the response is the registry's selectors for d, confidence 85, static, not cached
IsStaticAnswer(r, d) ==
    /\ r.selectors = Get(RegistryAnswer(d))
    /\ r.confidence = 85
    /\ r.source = "static"
    /\ r.cached = FALSE

\* the response is the total-failure sentinel
IsSentinel(r) ==
    /\ r.selectors.postContainer = ""
    /\ r.selectors.textContent = ""
    /\ r.confidence = 0
    /\ r.source = "static"
    /\ r.cached = FALSE

\* the response is the static match if there is one, else the sentinel
IsStaticOrSentinel(r, d) == IF HasStatic(d) THEN IsStaticAnswer(r, d) ELSE IsSentinel(r)

----------------------------------------------------------------------------
(* C1: cache-hit tier *)

\* the response carries exactly the entry's selectors and confidence, tagged cache,
\* with no discovery call, no registry lookup and the selector map untouched
CacheHitAnswer ==
    /\ Len(last.f.responses) = 1
    /\ Response.selectors = last.pre[last.req.domain].selectors
    /\ Response.confidence = last.pre[last.req.domain].confidence
    /\ Response.source = "cache"
    /\ Response.cached = TRUE
    /\ last.f.calls = 0
    /\ last.f.lookups = 0
    /\ store = last.pre

\* C1 as claimed: every non-forced request for a domain with an entry not older
\* than the TTL gets the cache-hit answer.
C1_CacheHitAsClaimed ==
    (Resolved /\ ~last.req.forceStatic /\ Servable(last.pre, last.at, last.req.domain))
        => CacheHitAnswer

\* C1 (amended): every non-forced request for a domain with an entry not older than
\* the TTL gets the cache-hit answer, provided the storage read of the lookup
\* succeeds (a failed read is treated as a miss).
C1_CacheHit ==
    (Resolved /\ ~last.req.forceStatic /\ ~last.env.readFails
        /\ Servable(last.pre, last.at, last.req.domain))
        => CacheHitAnswer

\* a cache hit on an entry whose age is exactly the TTL
C1_Witness ==
    /\ Resolved /\ ~last.req.forceStatic /\ ~last.env.readFails
    /\ last.req.domain \in DOMAIN last.pre
    /\ last.at - last.pre[last.req.domain].discoveredAt = 30 * 24 * 60 * 60
    /\ Response.source = "cache"

----------------------------------------------------------------------------
(* C2: forceStatic *)

----------------------------------------------------------------------------
(* C3: dynamic tier success *)

\* the request reaches a discovery that succeeds: not forced, no servable entry,
\* a non-empty sample, and the retry loop returns a result
DiscoverySucceeds ==
    /\ Resolved /\ ~last.req.forceStatic
    /\ ~Servable(last.pre, last.at, last.req.domain)
    /\ hasSample(last.req.htmlSample)
    /\ last.f.discovery = "ok"

\* the response is the collaborator's answer tagged dynamic, and the selector map
\* holds it for the domain with the placeholder metrics
DynamicAnswerCached ==
    LET d == last.req.domain
        ans == last.env.result
    IN  /\ Len(last.f.responses) = 1
        /\ Response.selectors.postContainer = ans.postContainer
        /\ Response.selectors.textContent = ans.textContent
        /\ Response.confidence = ans.confidence
        /\ Response.source = "dynamic"
        /\ Response.cached = FALSE
        /\ Response.reasoning = ans.reasoning
        /\ d \in DOMAIN store
        /\ store[d].selectors = Response.selectors
        /\ store[d].confidence = ans.confidence
        /\ store[d].validationMetrics = [postsFound |-> 0, textExtractionRate |-> 0]

\* C3 as claimed: whenever the discovery of a request succeeds, the response is the
\* discovered selectors tagged dynamic and the cache holds them afterwards.
C3_DynamicSuccessAsClaimed == DiscoverySucceeds => DynamicAnswerCached

\* C3 (amended): whenever the discovery of a request succeeds and the cache write
\* that follows succeeds, the response is the discovered selectors S with confidence
\* c, source dynamic, cached=false and reasoning r, and the cache then holds an entry
\* for the domain with S, c and the placeholder metrics.
C3_DynamicSuccess ==
    (DiscoverySucceeds /\ last.env.writeFault = "none") => DynamicAnswerCached

\* a discovery that succeeds on the third attempt, over an expired entry
C3_Witness ==
    /\ DiscoverySucceeds /\ last.env.writeFault = "none"
    /\ last.f.calls = 3
    /\ last.req.domain \in DOMAIN last.pre
    /\ Response.source = "dynamic"

----------------------------------------------------------------------------
(* C4: dynamic tier failure falls through *)

C4_WitnessCredential ==
    /\ Resolved /\ last.f.discovery = "failed"
    /\ last.f.calls = 1
    /\ Response.confidence = 0

----------------------------------------------------------------------------
(* C5: resolution never throws and always answers *)

\* some tier yields selectors: the cache is read and serves an entry, or the
\* discovery returns a result, or the registry matches
SomeTierYields ==
    \/ /\ ~last.req.forceStatic /\ ~last.env.readFails
       /\ Servable(last.pre, last.at, last.req.domain)
    \/ last.f.discovery = "ok"
    \/ HasStatic(last.req.domain)

----------------------------------------------------------------------------
(* C6: persistence failure is not total failure *)

\* C6: when the discovery succeeds and the cache write fails, the response still
\* carries the discovered selectors.
C6_PersistenceFailureKeepsSelectors ==
    (Resolved /\ last.f.discovery = "ok" /\ last.env.writeFault # "none") =>
        /\ Len(last.f.responses) = 1
        /\ Response.selectors.postContainer = last.env.result.postContainer
        /\ Response.selectors.textContent = last.env.result.textContent
        /\ Response.source = "dynamic"

----------------------------------------------------------------------------
(* C7: self-healing eviction (sequential) *)

\* an invalid validation report for a domain that has a cache entry
InvalidReported ==
    /\ Validated /\ ~last.req.valid
    /\ last.req.domain \in DOMAIN last.pre

\* a read of the domain's entry right after the run returns null
ReadsNull(d) ==
    \A evictFault \in Faults :
        ~IsSome(getCachedSelectors(store, now, d, FALSE, evictFault).entry)

\* the non-forced requests with a non-empty sample that may follow for d
FollowUps(d) ==
    { [domain |-> d, htmlSample |-> h, forceStatic |-> FALSE] :
          h \in {x \in HtmlSamples : hasSample(x)} }

\* every following request for d calls the collaborator and is not answered from the cache
RediscoversAfresh(d) ==
    \A req \in FollowUps(d), readFails \in BOOLEAN, collab \in Collaborators,
       result \in DiscoveryResults, writeFault \in Faults :
        LET f == handleDiscoverSelectors(store, now, req, readFails, "none",
                                         collab, result, writeFault)
        IN  /\ f.calls >= 1
            /\ \A i \in DOMAIN f.responses : f.responses[i].source # "cache"

----------------------------------------------------------------------------
(* C8: frame of updateValidation *)

\* C8: a valid validation report for d keeps the set of cached domains and every
\* other domain's entry as they were, and of d's entry it changes nothing but
\* lastValidatedAt and validationMetrics; with no storage fault and an entry
\* for d, those two fields become the clock and the reported metrics.
C8_UpdateValidationFrame ==
    (Validated /\ last.req.valid) =>
        LET d == last.req.domain IN
        /\ DOMAIN store = DOMAIN last.pre
        /\ \A k \in DOMAIN store : k # d => store[k] = last.pre[k]
        /\ d \in DOMAIN store =>
             /\ store[d].domain = last.pre[d].domain
             /\ store[d].selectors = last.pre[d].selectors
             /\ store[d].confidence = last.pre[d].confidence
             /\ store[d].discoveredAt = last.pre[d].discoveredAt
             /\ last.env.fault = "none" =>
                  /\ store[d].lastValidatedAt = last.at
                  /\ store[d].validationMetrics =
                         [postsFound |-> last.req.postsFound,
                          textExtractionRate |-> last.req.textExtractionRate]

\* a valid report that moved lastValidatedAt of one entry while another domain is cached
C8_Witness ==
    /\ Validated /\ last.req.valid
    /\ last.req.domain \in DOMAIN last.pre
    /\ \E k \in DOMAIN last.pre : k # last.req.domain
    /\ store[last.req.domain].lastValidatedAt # last.pre[last.req.domain].lastValidatedAt
    /\ store[last.req.domain].validationMetrics.postsFound = 5

\* a valid report for a domain without an entry
C8_WitnessAbsent ==
    /\ Validated /\ last.req.valid
    /\ last.req.domain \notin DOMAIN last.pre
    /\ DOMAIN last.pre # {}

----------------------------------------------------------------------------
(* C9: expiry enforcement on read *)

\* d's entry is older than 30 days now
Expired(d) == d \in DOMAIN store /\ now - store[d].discoveredAt > 30 * 24 * 60 * 60

\* a read of d never returns an entry older than 30 days, whatever fails
NeverReturnsExpired(d) ==
    \A readFails \in BOOLEAN, evictFault \in Faults :
        LET g == getCachedSelectors(store, now, d, readFails, evictFault) IN
        IsSome(g.entry) => now - Get(g.entry).discoveredAt <= 30 * 24 * 60 * 60

\* an entry not older than 30 days is returned as stored, and the map is left alone
ReturnsFresh(d) ==
    Servable(store, now, d) =>
        \A evictFault \in Faults :
            LET g == getCachedSelectors(store, now, d, FALSE, evictFault) IN
            g.entry = Some(store[d]) /\ g.store = store

\* a read that finds d's entry expired returns null and leaves a map without d,
\* which the statistics then count one domain smaller, the other entries kept
EvictsExpired(d, evictFault) ==
    Expired(d) =>
        LET g == getCachedSelectors(store, now, d, FALSE, evictFault) IN
        /\ g.entry = None
        /\ d \notin DOMAIN g.store
        /\ \A k \in DOMAIN store : k # d => (k \in DOMAIN g.store /\ g.store[k] = store[k])
        /\ getCacheStats(g.store, FALSE).totalDomains = Cardinality(DOMAIN store) - 1

\* C9 as claimed: a read never returns an entry older than 30 days; when it finds
\* one it returns null and deletes it, so that the statistics no longer count it; an
\* entry aged exactly 30 days is returned.
C9_ExpiryAsClaimed ==
    \A d \in Domains :
        /\ NeverReturnsExpired(d)
        /\ ReturnsFresh(d)
        /\ \A evictFault \in Faults : EvictsExpired(d, evictFault)

\* C9 (amended): a read never returns an entry older than 30 days; when it finds
\* one it returns null and, provided the storage calls of the eviction succeed,
\* deletes it, so that the statistics no longer count it; an entry aged exactly
\* 30 days is returned.
C9_Expiry ==
    \A d \in Domains :
        /\ NeverReturnsExpired(d)
        /\ ReturnsFresh(d)
        /\ EvictsExpired(d, "none")

\* a request whose cache lookup found an expired entry and evicted it, one other
\* domain staying cached
C9_Witness ==
    /\ Resolved /\ ~last.req.forceStatic /\ ~last.env.readFails
    /\ last.env.evictFault = "none"
    /\ last.req.domain \in DOMAIN last.pre
    /\ last.at - last.pre[last.req.domain].discoveredAt = 30 * 24 * 60 * 60 + 1
    /\ last.req.domain \notin DOMAIN store
    /\ getCacheStats(store, FALSE).totalDomains = 1

----------------------------------------------------------------------------
(* C10: domain normalization round-trip *)

\* C10: two spellings of one domain (equal after lowercasing and stripping a
\* leading www.) address the same cache entry: a read with either returns the same.
C10_NormalizedIdentity ==
    \A d1 \in Domains, d2 \in Domains :
        normalizeDomain(d1) = normalizeDomain(d2) =>
            getCachedSelectors(store, now, d1, FALSE, "none").entry
                = getCachedSelectors(store, now, d2, FALSE, "none").entry

----------------------------------------------------------------------------
(* C11: timestamp invariant *)

\* C11: every stored entry has lastValidatedAt >= discoveredAt; a request whose
\* discovery succeeds and whose cache write succeeds leaves the domain's entry with
\* both timestamps equal to the clock, whether or not an entry was there before;
\* a valid report that finds an entry moves lastValidatedAt to the clock and
\* leaves discoveredAt as it was.
C11_TimestampInvariant ==
    /\ \A d \in DOMAIN store : store[d].lastValidatedAt >= store[d].discoveredAt
    /\ (Resolved /\ last.f.discovery = "ok" /\ ~last.f.writeFailed) =>
          /\ last.req.domain \in DOMAIN store
          /\ store[last.req.domain].discoveredAt = last.at
          /\ store[last.req.domain].lastValidatedAt = last.at
    /\ (Validated /\ last.req.valid /\ last.env.fault = "none"
           /\ last.req.domain \in DOMAIN last.pre) =>
          /\ store[last.req.domain].lastValidatedAt = last.at
          /\ store[last.req.domain].discoveredAt = last.pre[last.req.domain].discoveredAt

\* a valid report that moved lastValidatedAt past discoveredAt
C11_Witness ==
    /\ Validated /\ last.req.valid
    /\ last.req.domain \in DOMAIN store
    /\ store[last.req.domain].lastValidatedAt > store[last.req.domain].discoveredAt

\* a set that overwrote an older entry and restarted its TTL
C11_WitnessOverwrite ==
    /\ Resolved /\ last.f.discovery = "ok" /\ ~last.f.writeFailed
    /\ last.req.domain \in DOMAIN last.pre
    /\ store[last.req.domain].discoveredAt > last.pre[last.req.domain].discoveredAt

----------------------------------------------------------------------------
(* C12, C13, C14: the retry loop.  Stated on the state right after a run of
   generateSelectorsWithRetry: last.req.maxAttempts, last.env.collab (what each
   call of the collaborator does) and last.f (what the loop did and returned). *)

Discovered == last.op = "discover"

\* call i of the collaborator fails with an error that is not a credential error
TransientFailure(collab, i) ==
    /\ ~collab[i].ok
    /\ \A j \in DOMAIN collab[i].message : collab[i].message[j] # "API key"

\* call i of the collaborator fails with a credential error
CredentialFailure(collab, i) ==
    /\ ~collab[i].ok
    /\ \E j \in DOMAIN collab[i].message : collab[i].message[j] = "API key"

\* calls 1..k one after the other, with a sleep of 2^i seconds after call i < k
CallsWithBackoff(k) ==
    [i \in 1..(2 * k - 1) |->
        IF i % 2 = 1 THEN [kind |-> "call", arg |-> (i + 1) \div 2]
        ELSE [kind |-> "wait", arg |-> 2 ^ (i \div 2)]]

\* C12: when calls 1..k-1 of the collaborator fail with transient errors and call
\* k <= maxAttempts succeeds, the loop returns that call's result, having made
\* exactly the calls 1..k in order with a sleep of 2^i seconds after failed call i
\* and no sleep after the success.
C12_RetryWithBackoff ==
    Discovered =>
        \A k \in 1..last.req.maxAttempts :
            (last.env.collab[k].ok
                /\ \A i \in 1..(k - 1) : TransientFailure(last.env.collab, i)) =>
                /\ last.f.ok
                /\ last.f.value = Some(generateSelectors(last.env.result))
                /\ last.f.calls = k
                /\ last.f.trace = CallsWithBackoff(k)
                /\ last.f.waits = [i \in 1..(k - 1) |-> 2 ^ i]

\* the collaborator fails twice and then succeeds: 3 calls, sleeps of 2 s and 4 s
C12_Witness ==
    /\ Discovered /\ last.f.ok
    /\ last.req.maxAttempts = 3
    /\ last.f.calls = 3
    /\ last.f.waits = <<2, 4>>

\* C13: when call j of the collaborator fails with a credential error after
\* transient failures of calls 1..j-1, the loop throws that error at attempt j: it
\* makes exactly j calls, its last step is that call (no sleep follows), and the
\* error is the credential error itself; a collaborator whose every call raises a
\* credential error is called exactly once.
C13_CredentialShortCircuit ==
    Discovered =>
        \A j \in 1..last.req.maxAttempts :
            (CredentialFailure(last.env.collab, j)
                /\ \A i \in 1..(j - 1) : TransientFailure(last.env.collab, i)) =>
                /\ ~last.f.ok
                /\ last.f.calls = j
                /\ last.f.trace = CallsWithBackoff(j)
                /\ last.f.error = [attempts |-> 0,
                                   lastMessage |-> last.env.collab[j].message]

\* a collaborator that always raises a credential error, with three attempts allowed
C13_Witness ==
    /\ Discovered
    /\ last.req.maxAttempts = 3
    /\ \A i \in 1..3 : CredentialFailure(last.env.collab, i)
    /\ last.f.calls = 1
    /\ last.f.waits = <<>>

\* a credential error on the second attempt
C13_WitnessSecond ==
    /\ Discovered
    /\ last.req.maxAttempts >= 2
    /\ CredentialFailure(last.env.collab, 2)
    /\ last.f.calls = 2
    /\ last.f.waits = <<2>>

\* C14: every run of the loop ends after at most maxAttempts calls and at most
\* maxAttempts - 1 sleeps; when all maxAttempts calls fail with transient errors it
\* throws the terminal error, which names maxAttempts and the message of the last
\* call's error, after exactly maxAttempts calls and maxAttempts - 1 sleeps.
C14_ExhaustionTerminates ==
    Discovered =>
        LET n == last.req.maxAttempts IN
        /\ last.f.calls <= n
        /\ Len(last.f.waits) <= n - 1
        /\ Len(last.f.trace) = last.f.calls + Len(last.f.waits)
        /\ (\A i \in 1..n : TransientFailure(last.env.collab, i)) =>
              /\ ~last.f.ok
              /\ last.f.calls = n
              /\ Len(last.f.waits) = n - 1
              /\ last.f.error = [attempts |-> n,
                                 lastMessage |-> last.env.collab[n].message]

\* three transient failures, the last with another message than the first two
C14_Witness ==
    /\ Discovered /\ ~last.f.ok
    /\ last.req.maxAttempts = 3
    /\ last.f.calls = 3
    /\ last.env.collab[3].message # last.env.collab[1].message
    /\ last.f.error.attempts = 3
    /\ last.f.error.lastMessage = last.env.collab[3].message

----------------------------------------------------------------------------
(* C15: validator pass/fail rule.  Stated on the state right after a run of
   validateSelectors: last.req are the selectors, last.env the page's numbers
   of containers by kind, last.f the ValidationResult. *)

SelectorsValidated == last.op = "validateSelectors"

\* the containers the post-container selector matches on the page
ContainersMatched ==
    IF last.req.postContainer = ".post"
    THEN last.env.long + last.env.short + last.env.bare ELSE 0

\* the matched containers whose text match has at least 50 characters after trimming
ContainersWithText ==
    IF last.req.postContainer = ".post" /\ last.req.textContent = ".body"
    THEN last.env.long ELSE 0

\* C15: validateSelectors reports postsFound = the number of containers matched
\* and valid = true if and only if postsFound >= 2 and 20 * postsWithText >=
\* 13 * postsFound, postsWithText counting the containers whose text match has
\* trimmed length >= 50; the reported rate is postsWithText / postsFound, and 0
\* when no container is matched.
C15_ValidatorRule ==
    SelectorsValidated =>
        /\ last.f.postsFound = ContainersMatched
        /\ last.f.valid <=>
              (last.f.postsFound >= 2 /\ 20 * ContainersWithText >= 13 * last.f.postsFound)
        /\ last.f.textExtractionRate[1] * ContainersMatched
              = ContainersWithText * last.f.textExtractionRate[2]
        /\ ContainersMatched = 0 =>
              (~last.f.valid /\ last.f.textExtractionRate[1] = 0)
        /\ (ContainersMatched = 20 /\ ContainersWithText = 13) => last.f.valid
        /\ (ContainersMatched = 20 /\ ContainersWithText = 12) => ~last.f.valid
        /\ (ContainersMatched = 1 /\ ContainersWithText = 1) => ~last.f.valid

\* 13 of 20 containers with text: valid
C15_Witness ==
    /\ SelectorsValidated
    /\ last.f.postsFound = 20
    /\ ContainersWithText = 13
    /\ last.env.short > 0
    /\ last.f.valid

\* 12 of 20 containers with text: not valid
C15_WitnessBelow ==
    /\ SelectorsValidated
    /\ last.f.postsFound = 20
    /\ ContainersWithText = 12
    /\ ~last.f.valid

\* one container, with text: not valid
C15_WitnessOne ==
    /\ SelectorsValidated
    /\ last.f.postsFound = 1
    /\ ContainersWithText = 1
    /\ ~last.f.valid

----------------------------------------------------------------------------
(* C16, C17: the static lookup.  Stated on the state right after a run of
   getStaticSelectorsForDomain: last.env.labels are the labels of the domain
   as written in lower case, last.f.selectors the result and
   last.f.baseDomain the base domain the lookup computes. *)

StaticLookedUp == last.op = "static"

\* the labels after the normalization: a leading www label is dropped
NormalizedLabels ==
    LET ls == last.env.labels IN
    IF Len(ls) >= 2 /\ ls[1] = <<"w","w","w">> THEN Tail(ls) ELSE ls

\* the keys registered for the three platforms, label by label
RegisteredTwitter ==
    { <<L_twitter, L_com>>, <<L_x, L_com>>, <<L_mobile, L_twitter, L_com>>,
      <<L_mobile, L_x, L_com>> }
RegisteredLinkedin ==
    { <<L_linkedin, L_com>>, <<L_www, L_linkedin, L_com>>, <<L_mobile, L_linkedin, L_com>> }
RegisteredFacebook ==
    { <<L_facebook, L_com>>, <<L_www, L_facebook, L_com>>, <<L_m, L_facebook, L_com>>,
      <<L_mobile, L_facebook, L_com>> }

\* what is registered under these labels: a platform, or nothing
RegisteredAt(ls) ==
    IF ls \in RegisteredTwitter THEN Some(TwitterSelectors)
    ELSE IF ls \in RegisteredLinkedin THEN Some(LinkedinSelectors)
    ELSE IF ls \in RegisteredFacebook THEN Some(FacebookSelectors)
    ELSE None

CompoundTlds ==
    { <<L_co, L_uk>>, <<L_com, L_au>>, <<L_co, L_jp>>, <<L_co, L_in>>, <<L_com, L_br>> }

\* the last k labels, all of them when there are fewer
LastLabels(ls, k) == IF Len(ls) <= k THEN ls ELSE SubSeq(ls, Len(ls) - k + 1, Len(ls))

\* the base domain's labels: the last 3 under a compound TLD, else the last 2
BaseLabels(ls) ==
    IF Len(ls) < 2 THEN ls
    ELSE IF <<ls[Len(ls) - 1], ls[Len(ls)]>> \in CompoundTlds THEN LastLabels(ls, 3)
    ELSE LastLabels(ls, 2)

\* the first registered match among the normalized domain, www. + it, and its base
FirstRegistered ==
    LET nl == NormalizedLabels IN
    IF IsSome(RegisteredAt(nl)) THEN RegisteredAt(nl)
    ELSE IF IsSome(RegisteredAt(<<L_www>> \o nl)) THEN RegisteredAt(<<L_www>> \o nl)
    ELSE RegisteredAt(BaseLabels(nl))

\* C16: the lookup of a domain, in whatever case and with or without a leading
\* www., returns the first registered match among the normalized domain, www. +
\* the normalized domain and the base domain, and null when none is registered.
C16_StaticLookup ==
    StaticLookedUp => last.f.selectors = FirstRegistered

\* the lookup agrees with the registry on every domain whose lookup keys are
\* not names of inherited members
StaticLookupOfOwnKeys ==
    (StaticLookedUp /\ NormalizedLabels # <<L_constructor>>)
        => last.f.selectors = FirstRegistered

\* a subdomain two levels below a registered base domain, written in upper case
StaticLookupViaBase ==
    /\ StaticLookedUp /\ last.env.upper
    /\ last.env.labels = <<L_blog, L_example, L_twitter, L_com>>
    /\ last.f.selectors = Some(TwitterSelectors)

\* C17: the base domain of a normalized domain with at least 2 labels is its last
\* 3 labels when its last two labels are co.uk, com.au, co.jp, co.in or com.br, and
\* its last 2 labels otherwise; a single-label domain is its own base domain.
C17_CompoundTldBase ==
    StaticLookedUp => split(last.f.baseDomain) = BaseLabels(NormalizedLabels)

\* blog.example.co.uk has the base domain example.co.uk
C17_Witness ==
    /\ StaticLookedUp
    /\ last.env.labels = <<L_blog, L_example, L_co, L_uk>>
    /\ split(last.f.baseDomain) = <<L_example, L_co, L_uk>>
    /\ last.f.selectors = None

----------------------------------------------------------------------------
(* C18: an empty postContainer is only the failure marker *)

\* C18: the response of a request has an empty postContainer if and only if it is
\* the sentinel (confidence 0, source static, not cached), and no cache entry
\* holds a selector set with an empty postContainer.
C18_EmptyOnlyAsSentinel ==
    /\ Resolved =>
          \A i \in DOMAIN last.f.responses :
              LET r == last.f.responses[i] IN
              /\ (r.selectors.postContainer = "") <=>
                    (r.confidence = 0 /\ r.source = "static" /\ ~r.cached)
              /\ r.source \in {"dynamic", "cache"} => r.selectors.postContainer # ""
    /\ \A d \in DOMAIN store : store[d].selectors.postContainer # ""

----------------------------------------------------------------------------
(* C19: no single-flight guard *)

\* run p discovered selectors, wrote them to the cache and answered
DiscoveredAndWrote(p) ==
    /\ procs[p].pc = "done"
    /\ procs[p].f.discovery = "ok"
    /\ IsSome(procs[p].entry)
    /\ \E i \in DOMAIN writes : writes[i].proc = p /\ writes[i].entry = procs[p].entry

\* runs p and q were requests for the same domain that both missed the cache, both
\* discovered and both wrote, and theirs are the only two writes to the storage
BothDiscoveredAndWrote(p, q) ==
    /\ p # q
    /\ procs[p].req.domain = procs[q].req.domain
    /\ DiscoveredAndWrote(p) /\ DiscoveredAndWrote(q)
    /\ Len(writes) = 2
    /\ {writes[1].proc, writes[2].proc} = {p, q}

\* C19: when two requests for the same uncached domain have both discovered and
\* both written, the cache holds one entry for the domain and no other, equal to
\* the entry of the later write, and each request was answered once, with its own
\* discovery result tagged dynamic.
C19_LastWriteWins ==
    \A p \in Procs, q \in Procs :
        BothDiscoveredAndWrote(p, q) =>
            LET d == procs[p].req.domain IN
            /\ DOMAIN store = {d}
            /\ Some(store[d]) = writes[2].entry
            /\ \A r \in {p, q} :
                 /\ Len(procs[r].f.responses) = 1
                 /\ procs[r].f.responses[1].source = "dynamic"
                 /\ procs[r].f.responses[1].selectors = Get(procs[r].entry).selectors
                 /\ procs[r].f.responses[1].confidence = Get(procs[r].entry).confidence

\* two requests for a.io that both missed the cache before either wrote and
\* discovered different selectors; the first one's write came last and stands
C19_Witness ==
    /\ BothDiscoveredAndWrote(1, 2)
    /\ procs[1].req.domain = A_IO
    /\ procs[1].sawWrites = 0 /\ procs[2].sawWrites = 0
    /\ procs[1].f.calls >= 1 /\ procs[2].f.calls >= 1
    /\ writes[2].proc = 1
    /\ Get(procs[1].entry).selectors # Get(procs[2].entry).selectors
    /\ store[A_IO] = Get(procs[1].entry)

----------------------------------------------------------------------------
(* C20 *)

PageLoaded == observer.phase # "unloaded"

\* the validation the observer ran on the i-th response failed
FailedValidation(i) ==
    /\ i <= Len(observer.validations)
    /\ ~observer.validations[i].valid

\* the report the intake received for the i-th validation carries its outcome
Reported(i) ==
    /\ observer.reports[i].domain = observer.domain
    /\ observer.reports[i].valid = observer.validations[i].valid
    /\ observer.reports[i].postsFound = observer.validations[i].postsFound
    /\ observer.reports[i].textExtractionRate = observer.validations[i].textExtractionRate

SentinelReceived ==
    /\ observer.responses # <<>>
    /\ observer.responses[Len(observer.responses)].selectors.postContainer = ""

C20_WitnessRecovered ==
    /\ PageLoaded
    /\ observer.phase = "observing"
    /\ Len(observer.requests) = 2
    /\ FailedValidation(1)

\* a page load that ended on the sentinel
C20_WitnessSentinel ==
    /\ PageLoaded
    /\ observer.phase = "inactive"
    /\ SentinelReceived

----------------------------------------------------------------------------
(* C21: storage failures at the store boundary *)

\* the selector map as persisted is what it was before the call
Untouched == store = last.pre

\* get under a failed read: null, nothing thrown, map untouched
GetSurvivesReadFailure ==
    (last.op = "get" /\ last.env.readFails)
        => (last.f.entry = None /\ ~last.f.threw /\ Untouched)

\* get whose eviction fails: null, nothing thrown, map untouched
GetSurvivesEvictionFailure ==
    (last.op = "get" /\ last.env.evictFault # "none")
        => (last.f.entry = None /\ ~last.f.threw /\ Untouched)

\* stats under a failed read: all zeros
StatsSurvivesReadFailure ==
    (last.op = "stats" /\ last.env.readFails)
        => (/\ last.f.stats = [totalDomains |-> 0, averageConfidence |-> 0,
                               oldestEntry |-> 0, newestEntry |-> 0]
            /\ Untouched)

\* set under a storage failure: the error reaches the caller, map untouched
SetRethrows ==
    (last.op = "set" /\ last.env.fault # "none") => (last.f.threw /\ Untouched)

\* updateValidation and remove under a storage failure: nothing thrown, map untouched
UpdateAndRemoveSwallow ==
    (last.op \in {"updateValidation", "remove"} /\ last.env.fault # "none")
        => (~last.f.threw /\ Untouched)

\* C21: a failed storage read makes get return null and stats return all zeros
\* without throwing; a failed storage call inside set is thrown to the caller;
\* a failure inside updateValidation or remove is swallowed; and in each of
\* these cases the persisted selector map is unchanged.
C21_StorageFailureSemantics ==
    /\ GetSurvivesReadFailure
    /\ GetSurvivesEvictionFailure
    /\ StatsSurvivesReadFailure
    /\ SetRethrows
    /\ UpdateAndRemoveSwallow

\* remove of an existing entry whose storage write fails: swallowed, entry kept
C21_Witness ==
    /\ last.op = "remove"
    /\ last.env.fault = "set"
    /\ last.req.domain \in DOMAIN last.pre
    /\ ~last.f.threw
    /\ last.req.domain \in DOMAIN store

\* get of a fresh entry whose storage read fails
C21_WitnessGet ==
    /\ last.op = "get"
    /\ last.env.readFails
    /\ last.req.domain \in DOMAIN last.pre
    /\ ~isExpired(last.pre[last.req.domain], last.at)
    /\ last.f.entry = None

\* set over an existing entry whose storage write fails
C21_WitnessSet ==
    /\ last.op = "set"
    /\ last.env.fault = "set"
    /\ last.req.domain \in DOMAIN last.pre
    /\ last.f.threw

\* stats of a non-empty cache whose storage read fails
C21_WitnessStats ==
    /\ last.op = "stats"
    /\ last.env.readFails
    /\ DOMAIN last.pre # {}
    /\ last.f.stats.totalDomains = 0

\* updateValidation of an existing entry whose storage write fails
C21_WitnessUpdate ==
    /\ last.op = "updateValidation"
    /\ last.env.fault = "set"
    /\ last.req.domain \in DOMAIN last.pre
    /\ ~last.f.threw

----------------------------------------------------------------------------
(* C22: get twice *)

\* a second get(d) right after the one just made, under the given storage faults
SecondGet(readFails, evictFault) ==
    getCachedSelectors(store, now, last.req.domain, readFails, evictFault)

\* the second get returns what the first returned and leaves the map as it found it
SameAsFirst(second) ==
    /\ second.entry = last.f.entry
    /\ second.store = store

C22_WitnessHit ==
    /\ last.op = "get"
    /\ ~last.env.readFails
    /\ IsSome(last.f.entry)
    /\ SecondGet(FALSE, "none").entry = last.f.entry

----------------------------------------------------------------------------
(* C23: needsRevalidation *)

RevalidationAsked == last.op = "needsRevalidation"

SinceValidation == last.at - last.req.entry.lastValidatedAt

\* C23: needsRevalidation(entry) is true exactly when more than 7 days have
\* passed since entry.lastValidatedAt; entries with the same lastValidatedAt
\* get the same answer; and the call changes nothing.
C23_RevalidationThreshold ==
    RevalidationAsked =>
        /\ last.f.result = (SinceValidation > 7 * 24 * 60 * 60)
        /\ \A d \in DOMAIN store :
              store[d].lastValidatedAt = last.req.entry.lastValidatedAt
                  => needsRevalidation(store[d], now) = last.f.result
        /\ Untouched

\* exactly 7 days: not stale
C23_Witness ==
    /\ RevalidationAsked
    /\ SinceValidation = 7 * 24 * 60 * 60
    /\ ~last.f.result

\* 7 days and a second: stale
C23_WitnessAbove ==
    /\ RevalidationAsked
    /\ SinceValidation = 7 * 24 * 60 * 60 + 1
    /\ last.f.result

\* a second less than 7 days: not stale
C23_WitnessBelow ==
    /\ RevalidationAsked
    /\ SinceValidation = 7 * 24 * 60 * 60 - 1
    /\ ~last.f.result

----------------------------------------------------------------------------
(* C24: the validation-report intake *)

InvalidReport == Validated /\ ~last.req.valid

\* d's entry is gone and every other entry is as before
RemovedOnly(d) ==
    /\ d \notin DOMAIN store
    /\ DOMAIN store = (DOMAIN last.pre) \ {d}
    /\ \A k \in DOMAIN store : store[k] = last.pre[k]

\* exactly one acknowledgement {success: true}
Acknowledged == last.f.responses = <<[success |-> TRUE]>>

\* C24 as claimed: every invalid report removes the domain's entry and leaves
\* the others unchanged, and every report is acknowledged once with
\* {success: true}, storage failure or not.
C24_ReportIntakeAsClaimed ==
    /\ InvalidReport => RemovedOnly(last.req.domain)
    /\ Validated => Acknowledged

\* C24 (amended): an invalid report whose storage calls succeed removes the
\* domain's entry (a no-op when there is none) and leaves the others unchanged;
\* under a storage failure the selector map is left as it was; and every
\* report, valid or not, is acknowledged once with {success: true}, storage
\* failure or not.
C24_ReportIntake ==
    /\ (InvalidReport /\ last.env.fault = "none") => RemovedOnly(last.req.domain)
    /\ (InvalidReport /\ last.env.fault # "none") => Untouched
    /\ Validated => Acknowledged

\* an invalid report that removed an entry next to another domain's entry
C24_Witness ==
    /\ InvalidReport
    /\ last.env.fault = "none"
    /\ last.req.domain \in DOMAIN last.pre
    /\ DOMAIN store # {}
    /\ Acknowledged

\* an invalid report for a domain without an entry
C24_WitnessAbsent ==
    /\ InvalidReport
    /\ last.env.fault = "none"
    /\ last.req.domain \notin DOMAIN last.pre
    /\ store = last.pre

\* an invalid report acknowledged although the removal failed
C24_WitnessFailed ==
    /\ InvalidReport
    /\ last.env.fault = "set"
    /\ last.req.domain \in DOMAIN store
    /\ Acknowledged

----------------------------------------------------------------------------
(* C25: the sampler's result *)

Sampled == last.op = "sampleDOM"

\* the first k candidates, in discovery order, joined by blank lines
RECURSIVE FirstJoined(_, _)
FirstJoined(candidates, k) ==
    IF k <= 0 \/ Len(candidates) = 0 THEN <<>>
    ELSE IF k = 1 \/ Len(candidates) = 1 THEN candidates[1]
    ELSE candidates[1] \o <<"\n", "\n">> \o FirstJoined(Tail(candidates), k - 1)

\* the first n characters of html
Prefix(html, n) == [i \in 1..(IF Len(html) < n THEN Len(html) ELSE n) |-> html[i]]

MarkerLength == 19

\* the result is the text of the first maxElements candidates if that fits,
\* else that of the first floor(maxElements/2) if that fits, else the latter
\* cut to maxSampleSize characters and followed by the marker
BoundedSample ==
    LET full == FirstJoined(last.env.candidates, last.req.maxElements)
        half == FirstJoined(last.env.candidates, last.req.maxElements \div 2)
        result == last.f.result[1]
    IN  /\ Len(full) <= last.req.maxSampleSize => result = full
        /\ (Len(full) > last.req.maxSampleSize /\ Len(half) <= last.req.maxSampleSize)
              => result = half
        /\ (Len(full) > last.req.maxSampleSize /\ Len(half) > last.req.maxSampleSize)
              => /\ Prefix(result, last.req.maxSampleSize) = Prefix(half, last.req.maxSampleSize)
                 /\ Len(result) = last.req.maxSampleSize + MarkerLength
                 /\ SubSeq(result, last.req.maxSampleSize + 1, Len(result)) = TruncationMarker
        /\ Len(result) <= last.req.maxSampleSize + MarkerLength

\* C25: sampleDOM returns null exactly when there is no candidate; otherwise
\* the sample is the first maxElements candidates in discovery order, or the
\* first floor(maxElements/2) when those exceed maxSampleSize, or that text
\* cut to maxSampleSize characters plus the truncation marker; it is never
\* longer than maxSampleSize plus the marker.
C25_SamplerBounds ==
    Sampled =>
        /\ (last.f.result = None) <=> (Len(last.env.candidates) = 0)
        /\ last.f.result # None => BoundedSample

\* a sample that was still too long after halving and was cut
C25_Witness ==
    /\ Sampled
    /\ last.req.maxElements \div 2 >= 1
    /\ last.req.maxSampleSize >= 1
    /\ last.f.result # None
    /\ Len(last.f.result[1]) = last.req.maxSampleSize + MarkerLength

\* a sample that fitted after halving
C25_WitnessHalved ==
    /\ Sampled
    /\ Len(last.env.candidates) >= 2
    /\ last.req.maxElements >= 2
    /\ last.f.result # None
    /\ last.f.result[1] = FirstJoined(last.env.candidates, last.req.maxElements \div 2)
    /\ Len(FirstJoined(last.env.candidates, last.req.maxElements)) > last.req.maxSampleSize

\* a page without candidates
C25_WitnessNull ==
    /\ Sampled
    /\ Len(last.env.candidates) = 0
    /\ last.f.result = None

----------------------------------------------------------------------------
(* C26: the tags of the response *)

\* the selector sets of the static registry
RegistrySelectors == {TwitterSelectors, LinkedinSelectors, FacebookSelectors}

\* confidence 85 with selectors of the static registry that name a post container
TaggedStaticMatch(r) ==
    /\ r.confidence = 85
    /\ r.selectors \in RegistrySelectors
    /\ r.selectors.postContainer # ""

\* the sentinel: empty selectors with confidence 0
TaggedSentinel(r) ==
    /\ r.selectors.postContainer = ""
    /\ r.selectors.textContent = ""
    /\ r.confidence = 0

WellTagged(r) ==
    /\ r.cached <=> r.source = "cache"
    /\ r.source \in {"cache", "dynamic", "static"}
    /\ r.source = "static" => (TaggedStaticMatch(r) \/ TaggedSentinel(r))
    /\ r.domain = last.req.domain

\* C26: every response of resolveSelectors has cached = true exactly when its
\* source is 'cache'; a response with source 'static' is either a selector set
\* of the static registry with confidence 85 or the sentinel with confidence 0;
\* and the response names the domain of the request.
C26_ResponseTagging ==
    Resolved => \A i \in DOMAIN last.f.responses : WellTagged(last.f.responses[i])

\* the same for the requests whose domain is not a member name inherited by
\* the registry object
TaggingOfOrdinaryDomains ==
    (Resolved /\ last.req.domain \notin InheritedMembers)
        => \A i \in DOMAIN last.f.responses : WellTagged(last.f.responses[i])

----------------------------------------------------------------------------
(* C27: when the discovery collaborator is called *)

\* get(domain) has nothing to return: the read fails, there is no entry, or
\* the entry is older than the TTL
NullFromGet ==
    \/ last.env.readFails
    \/ last.req.domain \notin DOMAIN last.pre
    \/ last.at - last.pre[last.req.domain].discoveredAt > 30 * 24 * 60 * 60

NonEmptySample == last.req.htmlSample # None /\ last.req.htmlSample # <<"">>

DiscoveryCalled == last.f.calls >= 1

\* from the miss straight to the static tier: one registry lookup, no call,
\* no entry written, the static match or the sentinel as the answer
StraightToStatic ==
    /\ ~DiscoveryCalled
    /\ last.f.lookups = 1
    /\ last.req.domain \in DOMAIN store => last.req.domain \in DOMAIN last.pre
    /\ Len(last.f.responses) = 1
    /\ IsStaticOrSentinel(Response, last.req.domain)

\* C27: during a resolveSelectors request the discovery collaborator is called
\* exactly when forceStatic is false, get(domain) returned null (no entry, an
\* expired entry or a failed read) and htmlSample is non-empty; on a miss with
\* a null or empty htmlSample the pipeline goes straight to the static tier.
C27_DiscoveryExactlyWhenNeeded ==
    Resolved =>
        /\ DiscoveryCalled <=> (~last.req.forceStatic /\ NullFromGet /\ NonEmptySample)
        /\ (~last.req.forceStatic /\ NullFromGet /\ ~NonEmptySample) => StraightToStatic

\* a miss with an empty sample on a domain of the registry: no discovery
C27_Witness ==
    /\ Resolved
    /\ ~last.req.forceStatic
    /\ last.req.htmlSample = <<"">>
    /\ last.req.domain \notin DOMAIN last.pre
    /\ ~DiscoveryCalled
    /\ Response.source = "static"
    /\ Response.confidence = 85

\* a fresh entry that could not be read: discovery is called
C27_WitnessReadFailure ==
    /\ Resolved
    /\ last.env.readFails
    /\ last.req.domain \in DOMAIN last.pre
    /\ last.at - last.pre[last.req.domain].discoveredAt <= 30 * 24 * 60 * 60
    /\ DiscoveryCalled

\* an expired entry: discovery is called
C27_WitnessExpired ==
    /\ Resolved
    /\ ~last.env.readFails
    /\ last.req.domain \in DOMAIN last.pre
    /\ last.at - last.pre[last.req.domain].discoveredAt > 30 * 24 * 60 * 60
    /\ DiscoveryCalled

\* a miss with a null sample on a domain outside the registry: the sentinel
C27_WitnessNull ==
    /\ Resolved
    /\ ~last.req.forceStatic
    /\ last.req.htmlSample = None
    /\ ~DiscoveryCalled
    /\ Response.confidence = 0

----------------------------------------------------------------------------
(* C28: validation and the TTL *)

Age(entry) == last.at - entry.discoveredAt
SinceLastValidation(entry) == last.at - entry.lastValidatedAt

ValidReport == Validated /\ last.req.valid

\* no entry's discoveredAt is changed by the run
DiscoveredAtKept ==
    \A d \in DOMAIN last.pre :
        d \in DOMAIN store => store[d].discoveredAt = last.pre[d].discoveredAt

ServedFromCache ==
    /\ Len(last.f.responses) = 1
    /\ Response.source = "cache"
    /\ Response.cached
    /\ Response.selectors = last.pre[last.req.domain].selectors

\* a request for a domain whose entry is older than 30 days is not answered from it
ExpiredNotServed ==
    (Resolved /\ last.req.domain \in DOMAIN last.pre
        /\ Age(last.pre[last.req.domain]) > 30 * 24 * 60 * 60)
        => \A i \in DOMAIN last.f.responses : last.f.responses[i].source # "cache"

\* the request is answered from an entry that is stale but within the TTL
StaleRequest ==
    /\ Resolved
    /\ ~last.req.forceStatic
    /\ last.req.domain \in DOMAIN last.pre
    /\ SinceLastValidation(last.pre[last.req.domain]) > 7 * 24 * 60 * 60
    /\ Age(last.pre[last.req.domain]) <= 30 * 24 * 60 * 60

\* C28 as claimed: a valid report leaves discoveredAt unchanged; an entry older
\* than 30 days is not served, however recently it was validated; and a stale
\* entry within the TTL is served as a cache hit.
C28_ValidationKeepsTtlAsClaimed ==
    /\ ValidReport => DiscoveredAtKept
    /\ ExpiredNotServed
    /\ StaleRequest => ServedFromCache

\* C28 (amended): a valid report leaves discoveredAt unchanged; an entry older
\* than 30 days is not served, however recently it was validated; and a stale
\* entry within the TTL is served as a cache hit provided the storage read of
\* the lookup succeeds.
C28_ValidationKeepsTtl ==
    /\ ValidReport => DiscoveredAtKept
    /\ ExpiredNotServed
    /\ (StaleRequest /\ ~last.env.readFails) => ServedFromCache

\* an entry validated at the moment of the request but set more than 30 days ago
C28_Witness ==
    /\ Resolved
    /\ ~last.req.forceStatic
    /\ ~last.env.readFails
    /\ last.req.domain \in DOMAIN last.pre
    /\ Age(last.pre[last.req.domain]) > 30 * 24 * 60 * 60
    /\ SinceLastValidation(last.pre[last.req.domain]) = 0
    /\ Response.source # "cache"

\* an entry last validated 30 days ago, served
C28_WitnessStale ==
    /\ StaleRequest
    /\ ~last.env.readFails
    /\ ServedFromCache

\* a valid report on an entry older than 30 days: validated now, discoveredAt kept
C28_WitnessReport ==
    /\ ValidReport
    /\ last.env.fault = "none"
    /\ last.req.domain \in DOMAIN last.pre
    /\ Age(last.pre[last.req.domain]) > 30 * 24 * 60 * 60
    /\ store[last.req.domain].lastValidatedAt = last.at
    /\ store[last.req.domain].discoveredAt = last.pre[last.req.domain].discoveredAt

----------------------------------------------------------------------------
(* C29: cache mutations for different domains in flight together *)

\* C29: when two requests for different domains have both discovered and both
\* written their entry, and theirs are the only writes to the storage, the
\* cache holds both entries.
C29_NoLostUpdate ==
    \A p \in Procs, q \in Procs :
        (/\ p # q
         /\ DiscoveredAndWrote(p) /\ DiscoveredAndWrote(q)
         /\ procs[p].req.domain # procs[q].req.domain
         /\ Len(writes) = 2)
            => /\ procs[p].req.domain \in DOMAIN store
               /\ procs[q].req.domain \in DOMAIN store
               /\ store[procs[p].req.domain] = Get(procs[p].entry)
               /\ store[procs[q].req.domain] = Get(procs[q].entry)

----------------------------------------------------------------------------
(* C30: an eviction and the handlers in flight with it *)

\* the i-th write is the removal of an invalid report whose run is over
CompletedEviction(i) ==
    /\ writes[i].proc \in Procs
    /\ writes[i].entry = None
    /\ procs[writes[i].proc].pc = "done"

\* a later discovery wrote an entry for the domain of the i-th write
RediscoveredSince(i) ==
    \E j \in DOMAIN writes :
        /\ j > i
        /\ writes[j].proc = 0
        /\ writes[j].domain = writes[i].domain
        /\ writes[j].entry # None

\* C30: once an invalid report for d has completed its removal, d has no entry
\* in the cache unless a later discovery for d wrote one, whatever other
\* handlers are in flight.
C30_EvictionNotUndone ==
    \A i \in DOMAIN writes :
        (CompletedEviction(i) /\ ~RediscoveredSince(i))
            => writes[i].domain \notin DOMAIN store

\* the same when no other write follows the removal
EvictionStandsWhenLast ==
    \A i \in DOMAIN writes :
        (CompletedEviction(i) /\ i = Len(writes))
            => writes[i].domain \notin DOMAIN store

----------------------------------------------------------------------------
(* C31: the eviction of get and a set in flight with it *)

\* the latest write to the storage is the eviction run p made inside its get,
\* and p still holds the map that eviction read
JustEvicted(p) ==
    /\ writes # <<>>
    /\ writes[Len(writes)].proc = p
    /\ writes[Len(writes)].entry = None
    /\ procs[p].pc \in {"discover", "done"}
    /\ procs[p].f.sets = 1

\* C31: the entry that the eviction inside get(d) deletes is older than the
\* TTL, under every interleaving with other requests.
C31_EvictsOnlyExpired ==
    \A p \in Procs :
        JustEvicted(p) =>
            LET d == procs[p].req.domain IN
            d \in DOMAIN procs[p].f.store => isExpired(procs[p].f.store[d], now)

\* the same when no write reached the storage between get's read of the
\* expired entry and the eviction
EvictsExpiredWhenUndisturbed ==
    \A p \in Procs :
        (JustEvicted(p) /\ procs[p].sawWrites = Len(writes) - 1) =>
            LET d == procs[p].req.domain IN
            d \in DOMAIN procs[p].f.store => isExpired(procs[p].f.store[d], now)

----------------------------------------------------------------------------
(* C37: the result of validateSelectors *)

RanValidator == last.op = "validateSelectors"

\* the number of containers the page holds
ContainersOnPage == last.env.long + last.env.short + last.env.bare

\* container.querySelector throws in every container of a page that has some
ThrowsInContainers ==
    /\ RanValidator
    /\ last.req.postContainer = ".post"
    /\ last.req.textContent = ""
    /\ ContainersOnPage >= 1

\* C37: every result of validateSelectors has postsFound >= 0 and a rate
\* between 0 and 1; valid means at least 2 posts and a rate of at least 0.65;
\* an invalid result carries at least one error; and when querying inside a
\* container throws, the remaining containers are still gone through: the
\* result counts every container and carries the threshold errors as well.
C37_ResultConsistency ==
    RanValidator =>
        LET r == last.f IN
        /\ r.postsFound >= 0
        /\ r.textExtractionRate[2] > 0
        /\ r.textExtractionRate[1] >= 0
        /\ r.textExtractionRate[1] <= r.textExtractionRate[2]
        /\ r.valid => /\ r.postsFound >= 2
                      /\ r.textExtractionRate[1] * 20 >= 13 * r.textExtractionRate[2]
        /\ ~r.valid => r.errors >= 1
        /\ ThrowsInContainers =>
              /\ r.postsFound = ContainersOnPage
              /\ r.textExtractionRate = <<0, ContainersOnPage>>
              /\ ~r.valid
              /\ r.errors >= 2

\* querying throws on a page of several containers
C37_Witness == ThrowsInContainers /\ ContainersOnPage >= 3 /\ last.f.errors = 2

\* a valid result at exactly 65 percent
C37_WitnessValid ==
    /\ RanValidator /\ last.f.valid
    /\ last.f.textExtractionRate[1] * 20 = 13 * last.f.textExtractionRate[2]

\* an invalid result with enough posts and both thresholds reported when missed
C37_WitnessInvalid ==
    /\ RanValidator /\ ~last.f.valid /\ last.req.textContent = ".body"
    /\ last.f.postsFound = 1 /\ last.f.errors = 2

----------------------------------------------------------------------------
(* C38: a sample whenever a candidate was found *)

\* sampleDOM ran on a page where at least one candidate was found
SampledCandidates == Sampled /\ Len(last.env.candidates) >= 1

\* the result is a non-empty string that starts with the first candidate's
\* markup, whole or cut at maxSampleSize characters
UsableSample ==
    /\ last.f.result # None
    /\ Len(last.f.result[1]) > 0
    /\ LET first == Prefix(last.env.candidates[1], last.req.maxSampleSize)
       IN  Prefix(last.f.result[1], Len(first)) = first

\* C38: for every maxElements >= 1 and every page with at least one
\* candidate, sampleDOM returns a non-null, non-empty string that contains at
\* least the first candidate's cleaned markup, possibly truncated.
C38_CandidateYieldsSample ==
    (SampledCandidates /\ last.req.maxElements >= 1) => UsableSample

\* the same from two elements on, where the halved sample keeps the first
UsableSampleFromTwo ==
    (SampledCandidates /\ last.req.maxElements >= 2) => UsableSample

----------------------------------------------------------------------------
(* C32: where cache entries come from *)

\* the request was answered with source 'static': a static match or the sentinel
AnsweredStatic ==
    /\ Resolved
    /\ Len(last.f.responses) = 1
    /\ Response.source = "static"

\* no entry was created or overwritten by the run
NothingWritten ==
    \A d \in DOMAIN store : d \in DOMAIN last.pre /\ store[d] = last.pre[d]

\* the only entry the run may have removed is the requested domain's expired
\* one, during the read of the cache tier
OnlyExpiredEvicted ==
    \A d \in DOMAIN last.pre :
        d \notin DOMAIN store =>
            /\ d = last.req.domain
            /\ ~last.req.forceStatic
            /\ last.at - last.pre[d].discoveredAt > 30 * 24 * 60 * 60

\* the entry holds for its own domain what generateSelectors builds from an
\* answer of the collaborator, with that answer's confidence
FromDiscovery(d, entry) ==
    /\ entry.domain = d
    /\ \E result \in DiscoveryResults :
         /\ entry.selectors = generateSelectors(result).selectors
         /\ entry.confidence = result.confidence

\* C32: a request answered with source 'static' (forced, as last resort or
\* the sentinel) creates or overwrites no cache entry, its only cache effect
\* being the eviction of the requested domain's expired entry; a valid
\* validation report for a domain without an entry creates none; and every
\* entry of the cache is the outcome of a discovery for its domain.
C32_OnlyDiscoveryCreatesEntries ==
    /\ AnsweredStatic => (NothingWritten /\ OnlyExpiredEvicted)
    /\ (Validated /\ last.req.valid /\ last.req.domain \notin DOMAIN last.pre)
          => store = last.pre
    /\ \A d \in DOMAIN store : FromDiscovery(d, store[d])

\* a static answer as last resort for a domain of the registry, after a
\* discovery was tried, while the cache holds another domain's entry
C32_Witness ==
    /\ AnsweredStatic
    /\ ~last.req.forceStatic
    /\ last.f.calls >= 1
    /\ HasStatic(last.req.domain)
    /\ store # <<>>

\* the sentinel after the expired entry of the domain was evicted
C32_WitnessEvicted ==
    /\ AnsweredStatic
    /\ IsSentinel(Response)
    /\ last.req.domain \in DOMAIN last.pre
    /\ last.req.domain \notin DOMAIN store

\* a valid report for a domain that has no entry
C32_WitnessReport ==
    /\ Validated /\ last.req.valid
    /\ last.req.domain \notin DOMAIN last.pre
    /\ last.env.fault = "none"
    /\ last.req.postsFound > 0

----------------------------------------------------------------------------
(* C33: the cache write and the dynamic response *)

PlaceholderMetrics == [postsFound |-> 0, textExtractionRate |-> 0]

\* the request was answered with source 'dynamic'
AnsweredDynamic ==
    /\ Resolved
    /\ Len(last.f.responses) = 1
    /\ Response.source = "dynamic"

\* the entry for the answered domain is in the cache when the response is
\* sent, with the answered selectors, stamped now, metrics still placeholders
WrittenBeforeAnswer ==
    /\ last.req.domain \in DOMAIN store
    /\ store[last.req.domain].selectors = Response.selectors
    /\ store[last.req.domain].confidence = Response.confidence
    /\ store[last.req.domain].discoveredAt = last.at
    /\ store[last.req.domain].validationMetrics = PlaceholderMetrics
    /\ last.f.sets >= 1
    /\ ~last.f.writeFailed

\* a valid report for a domain whose entry is still in the cache
ValidReportOnEntry ==
    /\ Validated /\ last.req.valid
    /\ last.req.domain \in DOMAIN last.pre

\* the entry carries the reported metrics and is otherwise as it was
MetricsReplaced ==
    /\ last.req.domain \in DOMAIN store
    /\ store[last.req.domain] =
         [last.pre[last.req.domain] EXCEPT
            !.lastValidatedAt = last.at,
            !.validationMetrics = [postsFound |-> last.req.postsFound,
                                   textExtractionRate |-> last.req.textExtractionRate]]

\* C33 as claimed: the cache write completes before the dynamic response is
\* sent, and a valid report sent after it finds the entry and replaces the
\* placeholder metrics with the reported ones, provided the domain was not
\* evicted in between.
C33_WritePrecedesResponseAsClaimed ==
    /\ AnsweredDynamic => WrittenBeforeAnswer
    /\ ValidReportOnEntry => MetricsReplaced

\* C33: the same, for a report whose storage read and write succeed; a report
\* whose storage access fails leaves the entry as it was.
C33_WritePrecedesResponse ==
    /\ AnsweredDynamic => WrittenBeforeAnswer
    /\ (ValidReportOnEntry /\ last.env.fault = "none") => MetricsReplaced
    /\ (ValidReportOnEntry /\ last.env.fault # "none") => store = last.pre

\* a dynamic answer whose entry is in the cache
C33_Witness ==
    /\ AnsweredDynamic
    /\ last.req.domain \notin DOMAIN last.pre
    /\ Response.selectors.postContainer # ""

\* a valid report that replaced the placeholder metrics
C33_WitnessReport ==
    /\ ValidReportOnEntry
    /\ last.env.fault = "none"
    /\ last.pre[last.req.domain].validationMetrics = PlaceholderMetrics
    /\ last.req.postsFound > 0
    /\ store[last.req.domain].validationMetrics.postsFound = last.req.postsFound

\* a valid report that could not replace them
C33_WitnessFault ==
    /\ ValidReportOnEntry
    /\ last.env.fault = "set"
    /\ last.req.postsFound > 0
    /\ store[last.req.domain].validationMetrics = PlaceholderMetrics

----------------------------------------------------------------------------
(* C34: one fact-check per post element *)

Observing == observer.phase = "observing"

\* a record that adds the post is in the queue
QueuedFor(e) ==
    \E i \in 1..Len(observer.mutationQueue) :
        /\ observer.mutationQueue[i].node = e
        /\ observer.mutationQueue[i].type = "childList"

\* C34: whatever the initial pass, the mutation batches and the periodic
\* scans do, each post element is marked processed at most once and a
\* CHECK_CLAIM message is sent for it at most once, and an element is in the
\* processed set only if a text of at least 50 trimmed characters was
\* extracted from it.
C34_OneCheckPerPost ==
    Observing =>
        \A e \in Posts :
            /\ observer.marks[e] <= 1
            /\ observer.sent[e] <= observer.marks[e]
            /\ (e \in observer.processedElements) <=> (observer.marks[e] = 1)
            /\ e \in observer.processedElements => observer.extracted[e] >= 50

\* a post that was checked is about to be handed to processPost again by a
\* mutation batch
C34_Witness ==
    /\ Observing
    /\ \E e \in Posts :
         /\ observer.sent[e] = 1
         /\ QueuedFor(e)
         /\ observer.timers # {}

\* both posts were checked and every record of two deliveries was handed on
C34_WitnessAfter ==
    /\ Observing
    /\ \A e \in Posts : observer.sent[e] = 1
    /\ observer.delivered >= 2
    /\ observer.mutationQueue = <<>>
    /\ \A i \in 1..observer.delivered : observer.handed[i] >= 1

----------------------------------------------------------------------------
(* C35: posts without text are retried *)

\* the texts of at least 50 characters after trimming
FullTexts == {t \in PostTexts : IsSome(t) /\ length(trim(Get(t))) >= 50}

\* the text element of the post holds at least 50 characters after trimming
HasFullText(e) ==
    /\ ~invalidSelector(observer.currentSelectors.textContent)
    /\ observer.text[e] \in FullTexts

\* a step does not put a post into the processed set while its text element
\* is missing or short
MarkedOnlyWithText ==
    \A e \in Posts :
        (Observing /\ e \notin observer.processedElements
            /\ e \in observer'.processedElements) => HasFullText(e)

\* the post is in the document with its full text and not yet processed
Waiting(e) ==
    /\ Observing
    /\ observer.inDocument[e]
    /\ HasFullText(e)
    /\ e \notin observer.processedElements

\* the post was processed, once, or it left the document
Settled(e) ==
    /\ Observing
    /\ \/ e \in observer.processedElements /\ observer.marks[e] = 1
       \/ ~observer.inDocument[e]

\* C35: a post whose text element is missing or shorter than 50 characters is
\* not marked processed; a post that stays in the document and whose text
\* reaches 50 characters is eventually processed, once, as long as the
\* periodic scan keeps firing.
C35_RetriedUntilProcessed ==
    /\ [][MarkedOnlyWithText]_vars
    /\ \A e \in Posts : Waiting(e) ~> Settled(e)

\* a post that processPost had left for a retry was processed by a scan: no
\* mutation was ever delivered
C35_Witness ==
    /\ Observing
    /\ observer.delivered = 0
    /\ \E e \in Posts :
         /\ e \in observer.retried
         /\ e \in observer.processedElements
         /\ observer.marks[e] = 1

\* a post left for a retry and still waiting for its text
C35_WitnessWaiting ==
    /\ Observing
    /\ \E e \in Posts :
         /\ e \in observer.retried
         /\ e \notin observer.processedElements
         /\ observer.inDocument[e]
         /\ ~HasFullText(e)

----------------------------------------------------------------------------
(* C36: the mutation queue and its timer *)

QueuedRecords == {observer.mutationQueue[i].id : i \in 1..Len(observer.mutationQueue)}

\* every delivered record is either queued with the timer pending, or was
\* handed to processMutationBatch once and is queued no more
HandedExactlyOnce ==
    \A i \in 1..observer.delivered :
        /\ observer.handed[i] <= 1
        /\ observer.handed[i] = 0 => (i \in QueuedRecords /\ observer.timers # {})
        /\ observer.handed[i] = 1 => i \notin QueuedRecords

AtMostOneTimer == Observing => Cardinality(observer.timers) <= 1

\* C36: every delivered MutationRecord is handed to processMutationBatch
\* exactly once, a delivery before the timer fires re-arms the single timer
\* and keeps the queued records, at most one debounce timer is pending, and
\* the queue is empty after the timer callback ran.
C36_BatchingLosesNothing ==
    Observing =>
        /\ HandedExactlyOnce
        /\ Cardinality(observer.timers) <= 1
        /\ ~observer.uncleared
        /\ observer.timers = {} => observer.mutationQueue = <<>>

\* the same as long as processMutationBatch has not thrown
BatchingWhileNothingThrows ==
    (Observing /\ observer.context
        /\ ~invalidSelector(observer.currentSelectors.textContent))
    => /\ HandedExactlyOnce
       /\ ~observer.uncleared
       /\ observer.timers = {} => observer.mutationQueue = <<>>

====
